---- MODULE Spec2Model ----
(***************************************************************************)
(* Model of the in-memory filesystem github.com/basharal/filesystem.       *)
(*                                                                         *)
(* Paths are sequences of one-character strings, so that the string        *)
(* operations of the code (HasSuffix, Split, concatenation, s[1:]) are     *)
(* computed as the code computes them.                                     *)
(*                                                                         *)
(* The path index (package github.com/basharal/trie) is not part of the    *)
(* sources; it is modelled from the specification as a correct map from    *)
(* keys to nodes (the definitions named trie...).                          *)
(***************************************************************************)
EXTENDS Integers, Sequences, FiniteSets, TLC

VARIABLES trie, objs, currentDir, mu, proc, last,
          servers, call, sent, stream, handler

\* the shard client (servers, call), the wire between the client and the
\* shard servers (sent, stream) and the handlers of a shard server
rpcvars == <<servers, call, sent, stream, handler>>

vars == <<trie, objs, currentDir, mu, proc, last,
          servers, call, sent, stream, handler>>

\* ------------------------------------------------------------------------
\* Bounds
\* ------------------------------------------------------------------------
\* number of directories and files ever created (the root included)
MaxObjs == 3
\* number of Move calls that reach the lock
MaxMoves == 1
\* length of the data of one Write call
MaxDataLen == 1
\* number of Write calls that reach a file
MaxWrites == 2
\* number of entries of the shard table of the client
MaxShards == 2
\* length of the data of one message of a stream, of the buffer of one
\* Read of a stream reader, and of a local file
MaxChunkLen == 2
\* number of messages with data that a stream carries
MaxChunks == 2

\* the callers; Repl is the caller of the command loop of cmd/filesystem
Procs == {1, 2}
Repl == {1}
Bytes == {1}

\* ------------------------------------------------------------------------
\* Strings
\* ------------------------------------------------------------------------
Separator == "/"
SeperatorStr == <<Separator>>

ErrAlreadyExist == "already exists"
ErrNotFound == "not found"
ErrInvalidName == "invalid name"
ErrNotSupported == "not supported"
ErrDirNotEmpty == "directory not empty"
ErrDirExpected == "directory expected. file given"
ErrWriteOnDir == "cannot write content on directories"
ErrReadOnDir == "cannot read content on directories"
Ok == "nil"

fileType == 1
dirType == 2

HasSuffix(s, suf) ==
    /\ Len(s) >= Len(suf)
    /\ SubSeq(s, Len(s) - Len(suf) + 1, Len(s)) = suf

TrimSuffix(s, suf) ==
    IF HasSuffix(s, suf) THEN SubSeq(s, 1, Len(s) - Len(suf)) ELSE s

\* s[1:]
Tail1(s) == SubSeq(s, 2, Len(s))

\* position of the first separator of s, 0 when there is none
RECURSIVE IndexSep(_, _)
IndexSep(s, i) ==
    IF i > Len(s) THEN 0
    ELSE IF s[i] = Separator THEN i
    ELSE IndexSep(s, i + 1)

\* strings.Split(s, "/"): the segments between separators; Split("") = <<"">>
RECURSIVE Split(_)
Split(s) ==
    LET i == IndexSep(s, 1) IN
    IF i = 0 THEN <<s>>
    ELSE <<SubSeq(s, 1, i - 1)>> \o Split(SubSeq(s, i + 1, Len(s)))

\* validateName that looks at the first segment only
validateNameOfFirst(s) ==
    IF Split(s)[1] = <<".">> \/ Split(s)[1] = <<".", ".">>
    THEN ErrInvalidName ELSE Ok

validateName(s) ==
    LET splitted == Split(s) IN
    IF \E i \in 1..Len(splitted) :
          splitted[i] = <<".">> \/ splitted[i] = <<".", ".">>
    THEN ErrInvalidName ELSE Ok

isAbs(s) == s # <<>> /\ s[1] = Separator

normalizeDirPath(path) ==
    IF HasSuffix(path, SeperatorStr) THEN path ELSE path \o SeperatorStr

\* ------------------------------------------------------------------------
\* Path index (github.com/basharal/trie), modelled from the specification:
\* a map from keys to nodes.  A trie value is [nodes, keys]: nodes is the
\* sequence of all nodes ever created (a node keeps its path and its
\* metadata handle for ever), keys the set of nodes now in the index.
\* Node 1 is the trie's internal root: empty path, no metadata, no key.
\* ------------------------------------------------------------------------
Nil == 0

trieRoot == 1

trieNew == [nodes |-> <<[path |-> <<>>, meta |-> Nil]>>, keys |-> {}]

triePath(t, n) == t.nodes[n].path

trieMeta(t, n) == t.nodes[n].meta

trieFind(t, key) ==
    IF \E n \in t.keys : t.nodes[n].path = key
    THEN CHOOSE n \in t.keys : t.nodes[n].path = key
    ELSE Nil

trieFindAtNode(t, path, n) == trieFind(t, triePath(t, n) \o path)

trieAdd(t, key, meta) ==
    [nodes |-> Append(t.nodes, [path |-> key, meta |-> meta]),
     keys |-> (t.keys \ {trieFind(t, key)}) \cup {Len(t.nodes) + 1}]

trieAddAtNode(t, path, n, meta) == trieAdd(t, triePath(t, n) \o path, meta)

trieRemove(t, key) == [t EXCEPT !.keys = @ \ {trieFind(t, key)}]

\* whether key names an immediate child of the directory key dir
trieIsChild(dir, key) ==
    /\ Len(key) > Len(dir)
    /\ SubSeq(key, 1, Len(dir)) = dir
    /\ LET rest == SubSeq(key, Len(dir) + 1, Len(key))
           i == IndexSep(rest, 1)
       IN  (i = 0 \/ i = Len(rest)) /\ rest # SeperatorStr

\* the elements of the set of numbers S in increasing order
RECURSIVE SortedSeq(_)
SortedSeq(S) ==
    IF S = {} THEN <<>>
    ELSE LET m == CHOOSE x \in S : \A y \in S : x <= y
         IN  <<m>> \o SortedSeq(S \ {m})

\* the immediate children of node n, in the order of their creation
trieListAtNode(t, n) ==
    SortedSeq({c \in t.keys : trieIsChild(triePath(t, n), triePath(t, c))})

\* ------------------------------------------------------------------------
\* Metadata, Dir and File.  An object is [nt, node, content, writes, w, r]:
\* node is md.node, content the file's bytes, (w, r) the file's RWMutex
\* (writer, readers); writes is the history of the data of the completed
\* Write calls on the file.
\* ------------------------------------------------------------------------
newDir(node) ==
    [nt |-> dirType, node |-> node, content |-> <<>>, writes |-> <<>>,
     w |-> 0, r |-> {}]

newFile(node) ==
    [nt |-> fileType, node |-> node, content |-> <<>>, writes |-> <<>>,
     w |-> 0, r |-> {}]

\* fs.root: the Dir created by New
root == 1

\* AbsolutePath that reports the root directory for every object
AbsolutePathOfRoot(m) == triePath(trie, objs[root].node)

AbsolutePath(m) ==
    LET path == triePath(trie, objs[m].node) IN
    IF Len(path) > 1 /\ HasSuffix(path, SeperatorStr)
    THEN TrimSuffix(path, SeperatorStr)
    ELSE path

normalizePath(path) ==
    IF isAbs(path) THEN path ELSE AbsolutePath(currentDir) \o path

findNode(path) ==
    LET node == IF isAbs(path) THEN trieRoot ELSE objs[currentDir].node
    IN  trieFindAtNode(trie, path, node)

IsFile(node) == objs[trieMeta(trie, node)].nt = fileType

IsDir(node) == objs[trieMeta(trie, node)].nt = dirType

Unchanged(err) == [err |-> err, trie |-> trie, objs |-> objs]

\* mkdirAtNode adding the directory under the root directory instead of
\* under n
mkdirAtNodeAtRoot(path, n) ==
    IF path = <<>> \/ ~HasSuffix(path, SeperatorStr) THEN Unchanged(ErrInvalidName)
    ELSE IF validateName(path) # Ok THEN Unchanged(validateName(path))
    ELSE IF Len(Split(path)) # 2 THEN Unchanged(ErrNotSupported)
    ELSE IF trieFindAtNode(trie, path, n) # Nil THEN Unchanged(ErrAlreadyExist)
    ELSE IF trieFindAtNode(trie, SubSeq(path, 1, Len(path) - 1), n) # Nil
         THEN Unchanged(ErrAlreadyExist)
    ELSE LET t2 == trieAddAtNode(trie, path, objs[root].node, Len(objs) + 1)
         IN  [err |-> Ok, trie |-> t2,
              objs |-> Append(objs, newDir(Len(t2.nodes)))]

mkdirAtNode(path, n) ==
    IF path = <<>> \/ ~HasSuffix(path, SeperatorStr) THEN Unchanged(ErrInvalidName)
    ELSE IF validateName(path) # Ok THEN Unchanged(validateName(path))
    ELSE IF Len(Split(path)) # 2 THEN Unchanged(ErrNotSupported)
    ELSE IF trieFindAtNode(trie, path, n) # Nil THEN Unchanged(ErrAlreadyExist)
    ELSE IF trieFindAtNode(trie, SubSeq(path, 1, Len(path) - 1), n) # Nil
         THEN Unchanged(ErrAlreadyExist)
    ELSE LET t2 == trieAddAtNode(trie, path, n, Len(objs) + 1)
         IN  [err |-> Ok, trie |-> t2,
              objs |-> Append(objs, newDir(Len(t2.nodes)))]

\* newFileAtNode without the lookup of the name in directory form
newFileAtNodeAmongFiles(path, n) ==
    IF path = <<>> \/ HasSuffix(path, SeperatorStr) THEN Unchanged(ErrInvalidName)
    ELSE IF validateName(path) # Ok THEN Unchanged(validateName(path))
    ELSE IF Len(Split(path)) # 1 THEN Unchanged(ErrNotSupported)
    ELSE IF trieFindAtNode(trie, path, n) # Nil THEN Unchanged(ErrAlreadyExist)
    ELSE LET t2 == trieAddAtNode(trie, path, n, Len(objs) + 1)
         IN  [err |-> Ok, trie |-> t2,
              objs |-> Append(objs, newFile(Len(t2.nodes)))]

newFileAtNode(path, n) ==
    IF path = <<>> \/ HasSuffix(path, SeperatorStr) THEN Unchanged(ErrInvalidName)
    ELSE IF validateName(path) # Ok THEN Unchanged(validateName(path))
    ELSE IF Len(Split(path)) # 1 THEN Unchanged(ErrNotSupported)
    ELSE IF trieFindAtNode(trie, path, n) # Nil THEN Unchanged(ErrAlreadyExist)
    ELSE IF trieFindAtNode(trie, path \o SeperatorStr, n) # Nil
         THEN Unchanged(ErrAlreadyExist)
    ELSE LET t2 == trieAddAtNode(trie, path, n, Len(objs) + 1)
         IN  [err |-> Ok, trie |-> t2,
              objs |-> Append(objs, newFile(Len(t2.nodes)))]

\* convertNodes: the objects of the nodes, directories and files apart
RECURSIVE convertNodes(_)
convertNodes(nodes) ==
    IF nodes = <<>> THEN [files |-> <<>>, dirs |-> <<>>]
    ELSE LET rest == convertNodes(Tail(nodes))
             meta == trieMeta(trie, Head(nodes))
         IN  IF objs[meta].nt = dirType
             THEN [files |-> rest.files, dirs |-> <<meta>> \o rest.dirs]
             ELSE [files |-> <<meta>> \o rest.files, dirs |-> rest.dirs]

\* the body of ListDir, under the read lock
ListDir(s0) ==
    LET s == normalizeDirPath(s0)
        node == findNode(s)
    IN  IF node = Nil
        THEN [err |-> ErrNotFound, files |-> <<>>, dirs |-> <<>>]
        ELSE LET c == convertNodes(trieListAtNode(trie, node))
             IN  [err |-> Ok, files |-> c.files, dirs |-> c.dirs]

\* File.Write without "f.content = buf.Bytes()": the data is lost
FileWriteLost(content, data) == content

\* File.Write on an empty buffer: the data replaces the content
FileWriteReplace(content, data) == data

\* File.Write: the buffer starts with the file's content and the data read
\* from the reader is written after it
FileWrite(content, data) == content \o data

\* File.Read: the whole content goes to the writer
\* File.Read that copies nothing to the writer
FileReadNothing(content) == <<>>

FileRead(content) == content

\* File.Size
Size(f) == Len(objs[f].content)

\* ------------------------------------------------------------------------
\* Callers.  proc[p] is the position of caller p inside its call and the
\* call's local variables; last is the call that returned in the latest
\* step (op = "" when the latest step returned nothing).
\* ------------------------------------------------------------------------
Idle ==
    [pc |-> "idle", src |-> <<>>, dst |-> <<>>, absSrc |-> <<>>,
     absDst |-> <<>>, file |-> 0, data |-> <<>>]

NoResult ==
    [op |-> "", p |-> 0, src |-> <<>>, dst |-> <<>>, err |-> Ok, n |-> 0,
     out |-> <<>>, file |-> 0, files |-> <<>>, dirs |-> <<>>]

Result(op, p, src, dst, err) ==
    [NoResult EXCEPT !.op = op, !.p = p, !.src = src, !.dst = dst, !.err = err]

\* the paths the callers pass
Paths ==
    { <<>>, <<"/">>,
      <<"a">>, <<"a", "/">>, <<"b">>,
      <<"/", "a">>, <<"/", "a", "/">>, <<"/", "b">>,
      <<"/", "a", "/", "a">>, <<"a", "/", "a">>, <<".", ".">> }

\* the sources the callers pass to Move
MoveSrcs ==
    { <<"/">>, <<"a">>, <<"a", "/">>, <<"/", "a", "/">>, <<"b">>,
      <<"/", "a", "/", "a">>, <<".", ".">> }

\* the destinations the callers pass to Move
MoveDsts ==
    { <<"/">>, <<"/", "a">>, <<"a", "/">>, <<"b">>, <<"/", "b">>,
      <<"/", "a", "/", "b">>, <<".", ".">> }

\* the data the callers write
RECURSIVE SeqsUpTo(_, _)
SeqsUpTo(S, n) ==
    IF n = 0 THEN {<<>>}
    ELSE LET shorter == SeqsUpTo(S, n - 1)
         IN  shorter \cup {Append(d, x) : d \in shorter, x \in S}

Datas == SeqsUpTo(Bytes, MaxDataLen)

\* caller p is at pc, and no result waits to be taken
At(p, pc) == last.op = "" /\ proc[p].pc = pc

\* sync.RWMutex: Lock needs no holder at all, RLock no writer
\* a Lock that waits for a writer only, not for the readers
CanLockAmongWriters(m) == m.w = 0

CanLock(m) == m.w = 0 /\ m.r = {}

CanRLock(m) == m.w = 0

\* Move calls that have passed the validation and not returned
Moving == Cardinality({q \in Procs : proc[q].pc \in {"MoveDst", "Move"}})

\* Move calls that have added their node: all nodes but the trie's root
\* and one node for each object created
Moved == Len(trie.nodes) - 1 - Len(objs)

CanCreate == Len(objs) < MaxObjs

CanMove == Moved + Moving < MaxMoves

\* a stream on which nothing has been sent, a handler that serves no
\* request, a client that makes no call
NoStream == [msgs |-> <<>>, closed |-> FALSE, status |-> ""]

NoHandler ==
    [pc |-> "idle", path |-> <<>>, recvd |-> 0,
     files |-> <<>>, dirs |-> <<>>, sizes |-> <<>>, err |-> Ok]

IdleCall ==
    [pc |-> "idle", op |-> "", path |-> <<>>, clients |-> <<>>,
     workers |-> <<>>, filesCh |-> <<>>, dirsCh |-> <<>>, errCh |-> <<>>,
     data |-> <<>>, local |-> <<>>]

\* no shard client and no shard server: the FileSystem is used in process
InitRpc ==
    /\ servers = <<>>
    /\ call = IdleCall
    /\ sent = <<>>
    /\ stream = [p \in Procs |-> NoStream]
    /\ handler = [p \in Procs |-> NoHandler]

\* New
New ==
    /\ trie = trieAdd(trieNew, <<"/">>, root)
    /\ objs = <<newDir(2)>>
    /\ currentDir = root
    /\ mu = [w |-> 0, r |-> {}]
    /\ proc = [p \in Procs |-> Idle]
    /\ last = NoResult

\* a FileSystem used in process
Init == New /\ InitRpc

\* CurrentDir
CurrentDir(p) ==
    /\ At(p, "idle")
    /\ CanRLock(mu)
    /\ last' = [Result("CurrentDir", p, <<>>, <<>>, Ok)
                  EXCEPT !.out = AbsolutePath(currentDir)]
    /\ UNCHANGED <<trie, objs, currentDir, mu, proc>>
    /\ UNCHANGED rpcvars

\* ChangeDir
ChangeDir(p, s0) ==
    /\ At(p, "idle")
    /\ CanLock(mu)
    /\ LET s == normalizeDirPath(s0)
           node == findNode(s)
       IN  IF node = Nil
           THEN /\ last' = Result("ChangeDir", p, s0, <<>>, ErrNotFound)
                /\ UNCHANGED currentDir
           ELSE IF ~IsDir(node)
           THEN /\ last' = Result("ChangeDir", p, s0, <<>>, ErrDirExpected)
                /\ UNCHANGED currentDir
           ELSE /\ last' = Result("ChangeDir", p, s0, <<>>, Ok)
                /\ currentDir' = trieMeta(trie, node)
    /\ UNCHANGED <<trie, objs, mu, proc>>
    /\ UNCHANGED rpcvars

\* MakeDir
MakeDir(p, s0) ==
    /\ At(p, "idle")
    /\ CanLock(mu)
    /\ LET s == normalizeDirPath(s0)
           res == IF isAbs(s) THEN mkdirAtNode(Tail1(s), objs[root].node)
                  ELSE mkdirAtNode(s, objs[currentDir].node)
       IN  /\ res.err = Ok => CanCreate
           /\ trie' = res.trie
           /\ objs' = res.objs
           /\ last' = Result("MakeDir", p, s0, <<>>, res.err)
    /\ UNCHANGED <<currentDir, mu, proc>>
    /\ UNCHANGED rpcvars

\* NewFile
NewFile(p, s) ==
    /\ At(p, "idle")
    /\ CanLock(mu)
    /\ LET res == IF isAbs(s) THEN newFileAtNode(Tail1(s), objs[root].node)
                  ELSE newFileAtNode(s, objs[currentDir].node)
       IN  /\ res.err = Ok => CanCreate
           /\ trie' = res.trie
           /\ objs' = res.objs
           /\ last' = Result("NewFile", p, s, <<>>, res.err)
    /\ UNCHANGED <<currentDir, mu, proc>>
    /\ UNCHANGED rpcvars

\* Remove, before the lock: s = fs.normalizePath(s) reads the current
\* directory
RemoveCall(p, s) ==
    /\ At(p, "idle")
    /\ proc' = [proc EXCEPT ![p] = [Idle EXCEPT !.pc = "Remove", !.src = s,
                                               !.absSrc = normalizePath(s)]]
    /\ last' = NoResult
    /\ UNCHANGED <<trie, objs, currentDir, mu>>
    /\ UNCHANGED rpcvars

\* Remove, under the lock, up to its return or to its call of ListDir.
\* [err, s, trie]: err = "ListDir" stands for the call of fs.ListDir(s).
removeLocked(s0) ==
    LET node0 == findNode(s0)
        s == IF node0 = Nil THEN normalizeDirPath(s0) ELSE s0
        node == IF node0 = Nil THEN findNode(s) ELSE node0
    IN  IF node = Nil THEN [err |-> ErrNotFound, s |-> s, trie |-> trie]
        ELSE IF node = objs[root].node \/ node = objs[currentDir].node
        THEN [err |-> ErrNotSupported, s |-> s, trie |-> trie]
        ELSE IF IsFile(node)
        THEN [err |-> Ok, s |-> s, trie |-> trieRemove(trie, s)]
        ELSE [err |-> "ListDir", s |-> s, trie |-> trie]

RemoveLocked(p) ==
    /\ At(p, "Remove")
    /\ CanLock(mu)
    /\ LET res == removeLocked(proc[p].absSrc)
       IN  IF res.err = "ListDir"
           THEN \* fs.ListDir is called with fs.mu still locked
                /\ mu' = [mu EXCEPT !.w = p]
                /\ proc' = [proc EXCEPT ![p].pc = "RemoveListDir",
                                        ![p].absSrc = res.s]
                /\ last' = NoResult
                /\ UNCHANGED trie
           ELSE /\ trie' = res.trie
                /\ proc' = [proc EXCEPT ![p] = Idle]
                /\ last' = Result("Remove", p, proc[p].src, <<>>, res.err)
                /\ UNCHANGED mu
    /\ UNCHANGED <<objs, currentDir>>
    /\ UNCHANGED rpcvars

\* ListDir, called by a caller
ListDirCall(p, s) ==
    /\ At(p, "idle")
    /\ proc' = [proc EXCEPT ![p] = [Idle EXCEPT !.pc = "ListDir", !.src = s,
                                               !.absSrc = s]]
    /\ last' = NoResult
    /\ UNCHANGED <<trie, objs, currentDir, mu>>
    /\ UNCHANGED rpcvars

\* the rest of Remove once its ListDir has returned res
removeListed(s, res) ==
    IF res.err # Ok THEN [err |-> res.err, trie |-> trie]
    ELSE IF Len(res.files) # 0 \/ Len(res.dirs) # 0
    THEN [err |-> ErrDirNotEmpty, trie |-> trie]
    ELSE [err |-> Ok, trie |-> trieRemove(trie, s)]

\* ListDir from RLock to RUnlock, for a caller or inside Remove; inside
\* Remove the rest of Remove follows (the deferred Unlock included)
ListDirLocked(p) ==
    /\ At(p, "ListDir") \/ At(p, "RemoveListDir")
    /\ CanRLock(mu)
    /\ LET res == ListDir(proc[p].absSrc)
       IN  IF proc[p].pc = "ListDir"
           THEN /\ last' = [Result("ListDir", p, proc[p].src, <<>>, res.err)
                              EXCEPT !.files = res.files, !.dirs = res.dirs]
                /\ UNCHANGED <<trie, mu>>
           ELSE LET rem == removeListed(proc[p].absSrc, res)
                IN  /\ trie' = rem.trie
                    /\ mu' = [mu EXCEPT !.w = 0]
                    /\ last' = Result("Remove", p, proc[p].src, <<>>, rem.err)
    /\ proc' = [proc EXCEPT ![p] = Idle]
    /\ UNCHANGED <<objs, currentDir>>
    /\ UNCHANGED rpcvars

\* Move, before the lock: the names are validated and the source is
\* normalized against the current directory, absSrc := fs.normalizePath(src)
MoveCall(p, src, dst) ==
    /\ At(p, "idle")
    /\ CanMove
    /\ IF validateName(src) # Ok \/ validateName(dst) # Ok
       THEN /\ last' = Result("Move", p, src, dst, ErrInvalidName)
            /\ UNCHANGED proc
       ELSE /\ proc' = [proc EXCEPT ![p] =
                          [Idle EXCEPT !.pc = "MoveDst", !.src = src,
                                       !.dst = dst,
                                       !.absSrc = normalizePath(src)]]
            /\ last' = NoResult
    /\ UNCHANGED <<trie, objs, currentDir, mu>>
    /\ UNCHANGED rpcvars

\* Move, still before the lock: absDst := fs.normalizePath(dst), a second
\* read of the current directory, which another caller may have changed
\* since the first
MoveNormalizeDst(p) ==
    /\ At(p, "MoveDst")
    /\ proc' = [proc EXCEPT ![p].pc = "Move",
                            ![p].absDst = normalizePath(proc[p].dst)]
    /\ last' = NoResult
    /\ UNCHANGED <<trie, objs, currentDir, mu>>
    /\ UNCHANGED rpcvars

\* Move without the check of the destination: it overwrites
moveLockedOverwrite(src, dst, absSrc, absDst) ==
    LET srcNode == findNode(src)
    IN  IF srcNode = Nil THEN [err |-> ErrNotFound, trie |-> trie]
        ELSE [err |-> Ok,
              trie |-> trieAdd(trieRemove(trie, absSrc), absDst,
                               trieMeta(trie, srcNode))]

\* Move, under the lock
moveLocked(src, dst, absSrc, absDst) ==
    LET srcNode == findNode(src)
        dstNode == findNode(dst)
    IN  IF srcNode = Nil THEN [err |-> ErrNotFound, trie |-> trie]
        ELSE IF dstNode # Nil THEN [err |-> ErrAlreadyExist, trie |-> trie]
        ELSE [err |-> Ok,
              trie |-> trieAdd(trieRemove(trie, absSrc), absDst,
                               trieMeta(trie, srcNode))]

MoveLocked(p) ==
    /\ At(p, "Move")
    /\ CanLock(mu)
    /\ LET res == moveLocked(proc[p].src, proc[p].dst,
                             proc[p].absSrc, proc[p].absDst)
       IN  /\ trie' = res.trie
           /\ last' = Result("Move", p, proc[p].src, proc[p].dst, res.err)
    /\ proc' = [proc EXCEPT ![p] = Idle]
    /\ UNCHANGED <<objs, currentDir, mu>>
    /\ UNCHANGED rpcvars

\* Write calls that have resolved their file and not returned
Writing ==
    Cardinality({q \in Procs : proc[q].pc \in {"FileWrite", "FileWriteCopy"}})

\* Write calls that have returned without error
RECURSIVE Written(_)
Written(i) == IF i = 0 THEN 0 ELSE Len(objs[i].writes) + Written(i - 1)

CanWrite == Written(Len(objs)) + Writing < MaxWrites

\* Write: the file is resolved under the read lock, which is released
WriteCall(p, s, data) ==
    /\ At(p, "idle")
    /\ CanRLock(mu)
    /\ LET node == findNode(s)
       IN  IF node = Nil
           THEN /\ last' = [Result("Write", p, s, <<>>, ErrNotFound) EXCEPT !.n = -1]
                /\ UNCHANGED proc
           ELSE IF ~IsFile(node)
           THEN /\ last' = [Result("Write", p, s, <<>>, ErrWriteOnDir) EXCEPT !.n = -1]
                /\ UNCHANGED proc
           ELSE /\ CanWrite
                /\ proc' = [proc EXCEPT ![p] =
                              [Idle EXCEPT !.pc = "FileWrite", !.src = s,
                                           !.file = trieMeta(trie, node),
                                           !.data = data]]
                /\ last' = NoResult
    /\ UNCHANGED <<trie, objs, currentDir, mu>>
    /\ UNCHANGED rpcvars

\* File.Write: f.mu.Lock()
FileWriteLock(p) ==
    /\ At(p, "FileWrite")
    /\ CanLock(objs[proc[p].file])
    /\ objs' = [objs EXCEPT ![proc[p].file].w = p]
    /\ proc' = [proc EXCEPT ![p].pc = "FileWriteCopy"]
    /\ last' = NoResult
    /\ UNCHANGED <<trie, currentDir, mu>>
    /\ UNCHANGED rpcvars

\* File.Write: the copy until EOF, the new content, the deferred Unlock
FileWriteCopy(p) ==
    /\ At(p, "FileWriteCopy")
    /\ LET f == proc[p].file
       IN  objs' = [objs EXCEPT ![f].content = FileWrite(@, proc[p].data),
                                ![f].writes = Append(@, proc[p].data),
                                ![f].w = 0]
    /\ last' = [Result("Write", p, proc[p].src, <<>>, Ok)
                  EXCEPT !.n = Len(proc[p].data), !.file = proc[p].file]
    /\ proc' = [proc EXCEPT ![p] = Idle]
    /\ UNCHANGED <<trie, currentDir, mu>>
    /\ UNCHANGED rpcvars

\* Read: the file is resolved under the read lock, which is released
ReadCall(p, s) ==
    /\ At(p, "idle")
    /\ CanRLock(mu)
    /\ LET node == findNode(s)
       IN  IF node = Nil
           THEN /\ last' = [Result("Read", p, s, <<>>, ErrNotFound) EXCEPT !.n = -1]
                /\ UNCHANGED proc
           ELSE IF ~IsFile(node)
           THEN /\ last' = [Result("Read", p, s, <<>>, ErrReadOnDir) EXCEPT !.n = -1]
                /\ UNCHANGED proc
           ELSE /\ proc' = [proc EXCEPT ![p] =
                              [Idle EXCEPT !.pc = "FileRead", !.src = s,
                                           !.file = trieMeta(trie, node)]]
                /\ last' = NoResult
    /\ UNCHANGED <<trie, objs, currentDir, mu>>
    /\ UNCHANGED rpcvars

\* File.Read: f.mu.RLock()
FileReadLock(p) ==
    /\ At(p, "FileRead")
    /\ CanRLock(objs[proc[p].file])
    /\ objs' = [objs EXCEPT ![proc[p].file].r = @ \cup {p}]
    /\ proc' = [proc EXCEPT ![p].pc = "FileReadCopy"]
    /\ last' = NoResult
    /\ UNCHANGED <<trie, currentDir, mu>>
    /\ UNCHANGED rpcvars

\* File.Read: the copy to the writer, the deferred RUnlock
FileReadCopy(p) ==
    /\ At(p, "FileReadCopy")
    /\ LET f == proc[p].file
           out == FileRead(objs[f].content)
       IN  /\ objs' = [objs EXCEPT ![f].r = @ \ {p}]
           /\ last' = [Result("Read", p, proc[p].src, <<>>, Ok)
                         EXCEPT !.n = Len(out), !.out = out, !.file = f]
    /\ proc' = [proc EXCEPT ![p] = Idle]
    /\ UNCHANGED <<trie, currentDir, mu>>
    /\ UNCHANGED rpcvars

\* the caller takes the result of the call that has just returned
Return ==
    /\ last.op # ""
    /\ last' = NoResult
    /\ UNCHANGED <<trie, objs, currentDir, mu, proc>>
    /\ UNCHANGED rpcvars

Next ==
    \/ Return
    \/ \E p \in Repl : CurrentDir(p)
    \/ \E p \in Repl, s \in Paths : ChangeDir(p, s)
    \/ \E p \in Repl, s \in Paths : MakeDir(p, s)
    \/ \E p \in Repl, s \in Paths : NewFile(p, s)
    \/ \E p \in Repl, s \in Paths : RemoveCall(p, s)
    \/ \E p \in Repl : RemoveLocked(p)
    \/ \E p \in Repl, s \in Paths : ListDirCall(p, s)
    \/ \E p \in Repl : ListDirLocked(p)
    \/ \E p \in Repl, s \in MoveSrcs, d \in MoveDsts : MoveCall(p, s, d)
    \/ \E p \in Repl : MoveNormalizeDst(p)
    \/ \E p \in Repl : MoveLocked(p)
    \/ \E p \in Repl, s \in Paths, d \in Datas : WriteCall(p, s, d)
    \/ \E p \in Repl : FileWriteLock(p)
    \/ \E p \in Repl : FileWriteCopy(p)
    \/ \E p \in Repl, s \in Paths : ReadCall(p, s)
    \/ \E p \in Repl : FileReadLock(p)
    \/ \E p \in Repl : FileReadCopy(p)

Spec == Init /\ [][Next]_vars

\* ------------------------------------------------------------------------
\* Two callers of one FileSystem ("All public methods are thread-safe"):
\* every interleaving of the steps of their calls.
\* ------------------------------------------------------------------------

\* the paths the concurrent callers pass
SharedPaths == { <<"a">>, <<"b">>, <<"/">> }

\* the sources the concurrent callers pass to Move
SharedMoveSrcs == { <<"a">>, <<"/", "a", "/">>, <<"/", "a", "/", "a">> }

NextConcurrent ==
    \/ Return
    \/ \E p \in Procs : CurrentDir(p)
    \/ \E p \in Procs, s \in SharedPaths : ChangeDir(p, s)
    \/ \E p \in Procs, s \in SharedPaths : MakeDir(p, s)
    \/ \E p \in Procs, s \in SharedPaths : NewFile(p, s)
    \/ \E p \in Procs, s \in SharedPaths : RemoveCall(p, s)
    \/ \E p \in Procs : RemoveLocked(p)
    \/ \E p \in Procs : ListDirCall(p, <<"/">>)
    \/ \E p \in Procs : ListDirLocked(p)
    \/ \E p \in Procs, s \in SharedMoveSrcs : MoveCall(p, s, <<"b">>)
    \/ \E p \in Procs : MoveNormalizeDst(p)
    \/ \E p \in Procs : MoveLocked(p)
    \/ \E p \in Procs, s \in SharedPaths, d \in Datas : WriteCall(p, s, d)
    \/ \E p \in Procs : FileWriteLock(p)
    \/ \E p \in Procs : FileWriteCopy(p)
    \/ \E p \in Procs, s \in SharedPaths : ReadCall(p, s)
    \/ \E p \in Procs : FileReadLock(p)
    \/ \E p \in Procs : FileReadCopy(p)

Concurrent == Init /\ [][NextConcurrent]_vars

\* ------------------------------------------------------------------------
\* One caller that passes names with dots to the calls that validate names.
\* ------------------------------------------------------------------------

\* the paths with dots that the caller passes
DotPaths ==
    { <<"a">>, <<"/", "a">>, <<"a", "/">>,
      <<".">>, <<".", ".">>, <<"/", ".">>, <<".", "/">>,
      <<"a", "/", ".">>, <<".", ".", "/", "a">>, <<"/", "a", "/", ".", ".">>,
      <<".", ".", ".">>, <<"a", ".">>, <<"/", ".", "a">> }

NextNames ==
    \/ Return
    \/ \E p \in Repl, s \in DotPaths : ChangeDir(p, s)
    \/ \E p \in Repl, s \in DotPaths : MakeDir(p, s)
    \/ \E p \in Repl, s \in DotPaths : NewFile(p, s)
    \/ \E p \in Repl, s \in DotPaths, d \in DotPaths : MoveCall(p, s, d)
    \/ \E p \in Repl : MoveNormalizeDst(p)
    \/ \E p \in Repl : MoveLocked(p)

Names == Init /\ [][NextNames]_vars

\* ------------------------------------------------------------------------
\* Shard client (package client).  servers is the shard table of the
\* client, each entry [StartPrefix, EndPrefix, Addr], with a connection
\* dialed to every address.  call is the call the client is in, sent the
\* requests of that call that have gone out, to which address, and
\* stream[p] the stream of a WriteFile; data is what is left to send of the
\* local file of a WriteFile and the chunks received by a ReadFile, local
\* the content of the local file.
\* ------------------------------------------------------------------------
ErrAbsPath == "path must be absolute"
ErrSingleServer == "must have a single server per path"
ErrUnavailable == "unavailable"
ErrLocalFile == "local file"

\* the byte of a character
Ord(c) ==
    CASE c = "." -> 46
      [] c = "/" -> 47
      [] c = "a" -> 97
      [] c = "b" -> 98
      [] c = "c" -> 99

\* fs.IsAbs
IsAbs(s) == s # <<>> /\ s[1] = Separator

\* the characters that bound the ranges of the shards
Prefixes == {"a", "b", "c"}

\* the ranges [StartPrefix, EndPrefix) a shard can have
Ranges ==
    {r \in [StartPrefix : {<<c>> : c \in Prefixes},
            EndPrefix : {<<c>> : c \in Prefixes}] :
        Ord(r.StartPrefix[1]) < Ord(r.EndPrefix[1])}

\* the shard tables of up to MaxShards entries, the addresses being the
\* positions in the table
RECURSIVE TablesOf(_)
TablesOf(n) ==
    IF n = 0 THEN {<<>>}
    ELSE {Append(t, [StartPrefix |-> r.StartPrefix, EndPrefix |-> r.EndPrefix,
                     Addr |-> n]) : t \in TablesOf(n - 1), r \in Ranges}

ShardTables == UNION {TablesOf(n) : n \in 0..MaxShards}

\* the loop of clientsForPath over servers[i..]: the addresses of the
\* servers that match, or the error
RECURSIVE serversForPath(_, _, _)
serversForPath(path, i, matched) ==
    IF i > Len(servers) THEN [err |-> Ok, clients |-> matched]
    ELSE IF ~IsAbs(path) THEN [err |-> ErrAbsPath, clients |-> <<>>]
    ELSE LET server == servers[i]
         IN  IF \/ path = SeperatorStr
                \/ /\ Ord(path[2]) >= Ord(server.StartPrefix[1])
                   /\ Ord(path[2]) < Ord(server.EndPrefix[1])
             THEN serversForPath(path, i + 1, Append(matched, server.Addr))
             ELSE serversForPath(path, i + 1, matched)

\* clientsForPath that takes the end of a range into the range
clientsForPathClosed(path) ==
    IF servers # <<>> /\ ~IsAbs(path) THEN [err |-> ErrAbsPath, clients |-> <<>>]
    ELSE [err |-> Ok,
          clients |-> SelectSeq([i \in 1..Len(servers) |-> servers[i].Addr],
                         LAMBDA a : \/ path = SeperatorStr
                                    \/ /\ Ord(path[2]) >= Ord(servers[a].StartPrefix[1])
                                       /\ Ord(path[2]) <= Ord(servers[a].EndPrefix[1]))]

clientsForPath(path) == serversForPath(path, 1, <<>>)

\* the first slice in a channel only
appendFirst(ch) == IF ch = <<>> THEN <<>> ELSE Head(ch)

\* the slices in a channel, one after the other
RECURSIVE appendAll(_)
appendAll(ch) == IF ch = <<>> THEN <<>> ELSE Head(ch) \o appendAll(Tail(ch))

\* the paths the client is asked for
ClientPaths ==
    { <<>>, <<"a">>, <<"/">>, <<"/", "a">>, <<"/", "b">>, <<"/", "c">>,
      <<"/", "a", "/", "c">> }

\* what a shard answers to ListDir: lists or an error
ListReplies ==
    { [err |-> Ok, files |-> <<"f">>, dirs |-> <<"d">>],
      [err |-> Ok, files |-> <<"f", "g">>, dirs |-> <<>>],
      [err |-> ErrNotFound, files |-> <<>>, dirs |-> <<>>],
      [err |-> ErrUnavailable, files |-> <<>>, dirs |-> <<>>] }

\* what a shard answers to a request without lists, and what a send, a
\* receive or the opening of a stream or of a local file comes to
Outcomes == {Ok, ErrUnavailable}

\* the client is at pc, and no result waits to be taken
InCall(pc) == last.op = "" /\ call.pc = pc

\* New and Dial of the client, on a fresh FileSystem that stays unused
InitClient ==
    /\ New
    /\ servers \in ShardTables
    /\ call = IdleCall
    /\ sent = <<>>
    /\ stream = [p \in Procs |-> NoStream]
    /\ handler = [p \in Procs |-> NoHandler]

fsvars == <<trie, objs, currentDir, mu, proc>>

\* the client returns err from its call
ClientReturns(op, path, err) ==
    /\ last' = Result(op, 0, path, <<>>, err)
    /\ call' = IdleCall

\* ListDir up to wg.Wait: the channels are made and a worker is started
\* for every client
ClientListDir(path) ==
    /\ InCall("idle")
    /\ LET res == clientsForPath(path)
       IN  IF res.err # Ok
           THEN ClientReturns("Client.ListDir", path, res.err)
           ELSE /\ call' = [IdleCall EXCEPT
                              !.pc = "ListDir", !.op = "ListDir", !.path = path,
                              !.clients = res.clients,
                              !.workers = [i \in 1..Len(res.clients) |->
                                             [pc |-> "start", reply |-> <<>>]]]
                /\ last' = NoResult
    /\ sent' = <<>>
    /\ UNCHANGED <<fsvars, servers, stream, handler>>

\* channels with room for all workers but one
chanCapShort == Len(call.clients) - 1

\* the capacity of filesCh, dirsCh and errCh: make(chan ..., len(clients))
chanCap == Len(call.clients)

\* a worker sends its request: client.ListDir(ctx, path)
WorkerCall(i) ==
    /\ InCall("ListDir")
    /\ i \in DOMAIN call.workers
    /\ call.workers[i].pc = "start"
    /\ call' = [call EXCEPT !.workers[i].pc = "wait"]
    /\ sent' = Append(sent, [addr |-> call.clients[i], op |-> "ListDir",
                             path |-> call.path])
    /\ UNCHANGED <<fsvars, last, servers, stream, handler>>

\* the request of a worker returns
WorkerReply(i, reply) ==
    /\ InCall("ListDir")
    /\ i \in DOMAIN call.workers
    /\ call.workers[i].pc = "wait"
    /\ call' = [call EXCEPT
                  !.workers[i] = [pc |-> IF reply.err # Ok THEN "errCh"
                                         ELSE "filesCh",
                                  reply |-> reply]]
    /\ UNCHANGED <<fsvars, last, servers, sent, stream, handler>>

\* select { case errCh <- err: default: }, then the worker is done
WorkerSendErr(i) ==
    /\ InCall("ListDir")
    /\ i \in DOMAIN call.workers
    /\ call.workers[i].pc = "errCh"
    /\ call' = [call EXCEPT
                  !.errCh = IF Len(@) < chanCap
                            THEN Append(@, call.workers[i].reply.err) ELSE @,
                  !.workers[i].pc = "done"]
    /\ UNCHANGED <<fsvars, last, servers, sent, stream, handler>>

\* filesCh <- out.Files, which waits for room in the channel
WorkerSendFiles(i) ==
    /\ InCall("ListDir")
    /\ i \in DOMAIN call.workers
    /\ call.workers[i].pc = "filesCh"
    /\ Len(call.filesCh) < chanCap
    /\ call' = [call EXCEPT
                  !.filesCh = Append(@, call.workers[i].reply.files),
                  !.workers[i].pc = "dirsCh"]
    /\ UNCHANGED <<fsvars, last, servers, sent, stream, handler>>

\* dirsCh <- out.Dirs, then the worker is done
WorkerSendDirs(i) ==
    /\ InCall("ListDir")
    /\ i \in DOMAIN call.workers
    /\ call.workers[i].pc = "dirsCh"
    /\ Len(call.dirsCh) < chanCap
    /\ call' = [call EXCEPT
                  !.dirsCh = Append(@, call.workers[i].reply.dirs),
                  !.workers[i].pc = "done"]
    /\ UNCHANGED <<fsvars, last, servers, sent, stream, handler>>

\* a wg.Wait that returns when one worker is done
WaitForOne ==
    \/ call.workers = <<>>
    \/ \E i \in DOMAIN call.workers : call.workers[i].pc = "done"

\* wg.Wait: every worker is done
WaitGroupDone == \A i \in DOMAIN call.workers : call.workers[i].pc = "done"

\* ListDir from wg.Wait on: the channels are closed and read
ClientListDirWait ==
    /\ InCall("ListDir")
    /\ WaitGroupDone
    /\ IF call.errCh # <<>>
       THEN last' = Result("Client.ListDir", 0, call.path, <<>>, Head(call.errCh))
       ELSE last' = [Result("Client.ListDir", 0, call.path, <<>>, Ok) EXCEPT
                       !.files = appendAll(call.filesCh),
                       !.dirs = appendAll(call.dirsCh)]
    /\ call' = [call EXCEPT !.pc = "idle"]
    /\ UNCHANGED <<fsvars, servers, sent, stream, handler>>

\* the requests that go to one shard and come back with a status
UnaryOps == {"Client.MakeDir", "Client.Remove", "Client.CreateFile"}

\* MakeDir, Remove and CreateFile up to the request to the one client
ClientUnary(op, path) ==
    /\ InCall("idle")
    /\ LET res == clientsForPath(path)
       IN  IF res.err # Ok \/ Len(res.clients) # 1
           THEN /\ last' = Result(op, 0, path, <<>>,
                              IF res.err # Ok THEN res.err ELSE ErrSingleServer)
                /\ call' = [IdleCall EXCEPT !.op = op, !.path = path,
                                            !.clients = res.clients]
                /\ sent' = <<>>
           ELSE /\ last' = NoResult
                /\ call' = [IdleCall EXCEPT !.pc = "unary", !.op = op,
                                            !.path = path,
                                            !.clients = res.clients]
                /\ sent' = <<[addr |-> res.clients[1], op |-> op,
                              path |-> path]>>
    /\ UNCHANGED <<fsvars, servers, stream, handler>>

\* the request returns, and with it the call
ClientUnaryReply(err) ==
    /\ InCall("unary")
    /\ last' = Result(call.op, 0, call.path, <<>>, err)
    /\ call' = [call EXCEPT !.pc = "idle"]
    /\ UNCHANGED <<fsvars, servers, sent, stream, handler>>

\* the bytes on the wire and in the local files
WireBytes == {1, 2}

\* the data of one message of a stream
Chunks == SeqsUpTo(WireBytes, MaxChunkLen) \ {<<>>}

\* the contents of the local files
LocalFiles == SeqsUpTo(WireBytes, MaxChunkLen)

Min(a, b) == IF a < b THEN a ELSE b

\* ReadFile up to io.Copy: create is what os.Create comes to and open
\* what clients[0].ReadFile comes to
ClientReadFile(path, create, open) ==
    /\ InCall("idle")
    /\ LET res == clientsForPath(path)
           err == IF res.err # Ok THEN res.err
                  ELSE IF create # Ok THEN ErrLocalFile
                  ELSE IF Len(res.clients) # 1 THEN ErrSingleServer
                  ELSE open
       IN  IF err # Ok
           THEN /\ last' = Result("Client.ReadFile", 0, path, <<>>, err)
                /\ call' = [IdleCall EXCEPT !.op = "Client.ReadFile",
                                            !.path = path,
                                            !.clients = res.clients]
                /\ sent' = <<>>
           ELSE /\ last' = NoResult
                /\ call' = [IdleCall EXCEPT !.pc = "ReadFile",
                                            !.op = "Client.ReadFile",
                                            !.path = path,
                                            !.clients = res.clients]
                /\ sent' = <<[addr |-> res.clients[1],
                              op |-> "Client.ReadFile", path |-> path]>>
    /\ UNCHANGED <<fsvars, servers, stream, handler>>

\* streamReader.Read(p) with len(p) = n inside io.Copy, on a chunk that
\* stream.Recv returns: the receiver is a copy, so what it keeps in buf is
\* gone at the next Read, and the n bytes go to the local file
ClientReadRecv(chunk, n) ==
    /\ InCall("ReadFile")
    /\ Len(call.data) < MaxChunks
    /\ call' = [call EXCEPT
                  !.data = Append(@, chunk),
                  !.local = @ \o SubSeq(chunk, 1, Min(n, Len(chunk)))]
    /\ UNCHANGED <<fsvars, last, servers, sent, stream, handler>>

\* stream.Recv returns io.EOF (err = Ok) or an error: io.Copy returns
ClientReadEnd(err) ==
    /\ InCall("ReadFile")
    /\ last' = [Result("Client.ReadFile", 0, call.path, <<>>, err) EXCEPT
                  !.out = call.local]
    /\ call' = [call EXCEPT !.pc = "idle"]
    /\ UNCHANGED <<fsvars, servers, sent, stream, handler>>

\* the stream of the client's WriteFile
ClientStream == 1

\* the path sent as a message with data
PathMsgAsData(path) == [kind |-> "data", val |-> path]

PathMsg(path) == [kind |-> "path", val |-> path]

DataMsg(data) == [kind |-> "data", val |-> data]

\* WriteFile up to the first Send: open is what os.Open comes to, dial what
\* clients[0].WriteFile comes to; data is the content of the local file
ClientWriteFile(path, data, open, dial) ==
    /\ InCall("idle")
    /\ LET res == clientsForPath(path)
           err == IF res.err # Ok THEN res.err
                  ELSE IF Len(res.clients) # 1 THEN ErrSingleServer
                  ELSE IF open # Ok THEN ErrLocalFile
                  ELSE dial
       IN  IF err # Ok
           THEN /\ last' = Result("Client.WriteFile", 0, path, <<>>, err)
                /\ call' = [IdleCall EXCEPT !.op = "Client.WriteFile",
                                            !.path = path,
                                            !.clients = res.clients]
                /\ sent' = <<>>
           ELSE /\ last' = NoResult
                /\ call' = [IdleCall EXCEPT !.pc = "SendPath",
                                            !.op = "Client.WriteFile",
                                            !.path = path,
                                            !.clients = res.clients,
                                            !.data = data, !.local = data]
                /\ sent' = <<[addr |-> res.clients[1],
                              op |-> "Client.WriteFile", path |-> path]>>
    /\ stream' = [stream EXCEPT ![ClientStream] = NoStream]
    /\ UNCHANGED <<fsvars, servers, handler>>

\* client.Send of the message with the path; when it fails the stream is
\* closed and WriteFile returns
ClientSendPath(err) ==
    /\ InCall("SendPath")
    /\ IF err # Ok
       THEN /\ stream' = [stream EXCEPT ![ClientStream].closed = TRUE]
            /\ last' = Result("Client.WriteFile", 0, call.path, <<>>, err)
            /\ call' = [call EXCEPT !.pc = "idle"]
       ELSE /\ stream' = [stream EXCEPT
                            ![ClientStream].msgs = Append(@, PathMsg(call.path))]
            /\ last' = NoResult
            /\ call' = [call EXCEPT !.pc = "SendData"]
    /\ UNCHANGED <<fsvars, servers, sent, handler>>

\* streamWriter.Write inside io.Copy: the next n bytes of the local file
\* go out as one message; when the Send fails WriteFile returns
ClientSendData(n, err) ==
    /\ InCall("SendData")
    /\ n \in 1..Len(call.data)
    /\ IF err # Ok
       THEN /\ last' = Result("Client.WriteFile", 0, call.path, <<>>, err)
            /\ call' = [call EXCEPT !.pc = "idle"]
            /\ UNCHANGED stream
       ELSE /\ stream' = [stream EXCEPT
                            ![ClientStream].msgs =
                               Append(@, DataMsg(SubSeq(call.data, 1, n)))]
            /\ last' = NoResult
            /\ call' = [call EXCEPT !.data = SubSeq(@, n + 1, Len(@))]
    /\ UNCHANGED <<fsvars, servers, sent, handler>>

\* client.CloseAndRecv once the local file is read to its end: the
\* sending side is closed and the status of the server, or an error, comes
ClientCloseAndRecv(err) ==
    /\ InCall("SendData")
    /\ call.data = <<>>
    /\ stream' = [stream EXCEPT ![ClientStream].closed = TRUE,
                                ![ClientStream].status =
                                   IF err = Ok THEN "SUCCESS" ELSE err]
    /\ last' = Result("Client.WriteFile", 0, call.path, <<>>, err)
    /\ call' = [call EXCEPT !.pc = "idle"]
    /\ UNCHANGED <<fsvars, servers, sent, handler>>

\* the caller of the client takes the result of the call that has
\* returned; the client is idle, with no request and no stream in flight
ClientReturn ==
    /\ last.op # ""
    /\ last' = NoResult
    /\ call' = IdleCall
    /\ sent' = <<>>
    /\ stream' = [stream EXCEPT ![ClientStream] = NoStream]
    /\ UNCHANGED <<fsvars, servers, handler>>

NextClient ==
    \/ ClientReturn
    \/ \E path \in ClientPaths : ClientListDir(path)
    \/ \E i \in 1..MaxShards : WorkerCall(i)
    \/ \E i \in 1..MaxShards, reply \in ListReplies : WorkerReply(i, reply)
    \/ \E i \in 1..MaxShards : WorkerSendErr(i)
    \/ \E i \in 1..MaxShards : WorkerSendFiles(i)
    \/ \E i \in 1..MaxShards : WorkerSendDirs(i)
    \/ ClientListDirWait
    \/ \E op \in UnaryOps, path \in ClientPaths : ClientUnary(op, path)
    \/ \E err \in Outcomes \cup {ErrAlreadyExist} : ClientUnaryReply(err)
    \/ \E path \in ClientPaths, create \in Outcomes, open \in Outcomes :
          ClientReadFile(path, create, open)
    \/ \E chunk \in Chunks, n \in 1..MaxChunkLen : ClientReadRecv(chunk, n)
    \/ \E err \in Outcomes : ClientReadEnd(err)
    \/ \E path \in ClientPaths, data \in LocalFiles, open \in Outcomes,
          dial \in Outcomes : ClientWriteFile(path, data, open, dial)
    \/ \E err \in Outcomes : ClientSendPath(err)
    \/ \E n \in 1..MaxChunkLen, err \in Outcomes : ClientSendData(n, err)
    \/ \E err \in Outcomes : ClientCloseAndRecv(err)

Client == InitClient /\ [][NextClient]_vars

\* the goroutines of the client are scheduled: a worker that has its reply
\* hands it over and ends, and ListDir goes on when wg.Wait lets it
ClientLive ==
    /\ Client
    /\ \A i \in 1..MaxShards :
          WF_vars(WorkerSendErr(i) \/ WorkerSendFiles(i) \/ WorkerSendDirs(i))
    /\ WF_vars(ClientListDirWait)

\* ------------------------------------------------------------------------
\* Shard server (package server).  The server has the engine of the first
\* part of the module and its range: servers[1] holds the Opts it was made
\* with, StartPrefix and EndPrefix, a single character each with
\* StartPrefix < EndPrefix (New).  A handler runs in the process p of the
\* engine; stream[p] is the stream of the WriteFile it handles: msgs the
\* messages the peer has sent, closed the end of the stream of the peer,
\* status what the server has sent.  handler[p] is the position of the
\* handler of WriteFile, recvd the number of messages it has received, or
\* the position of the handler of ListDir that makes its response: files
\* and dirs are the lists of the engine and sizes the Size() of the files
\* it has asked so far.
\* The results of the handlers are those of the engine, or a result named
\* after the handler.
\* ------------------------------------------------------------------------
ErrEmptyPath == "empty path"
ErrPathsAbs == "paths must be absolute"
ErrNotIntended == "path isn't intended for server"
ErrFirstMessage == "first message must be the path of the file to write to"

start == servers[1].StartPrefix

end == servers[1].EndPrefix

\* validatePath: nil, or the error
validatePath(path) ==
    IF path = <<>> THEN ErrEmptyPath
    ELSE IF ~IsAbs(path) THEN ErrPathsAbs
    ELSE IF /\ Len(path) > 1
            /\ \/ Ord(path[2]) < Ord(start[1])
               \/ Ord(path[2]) >= Ord(end[1])
         THEN ErrNotIntended
    ELSE Ok

\* status.Errorf(codes.InvalidArgument, ...)
InvalidArgument(err) == "InvalidArgument: " \o err

\* the paths of the requests
ServerPaths ==
    { <<>>, <<"a">>, <<"/">>, <<"/", "a">>, <<"/", "b">>, <<"/", "c">> }

\* the handlers of the requests with one path
ServerOps ==
    {"Server.ListDir", "Server.MakeDir", "Server.Remove",
     "Server.CreateFile", "Server.ReadFile"}

\* the server is made with its range and a new engine
InitServer ==
    /\ New
    /\ servers \in TablesOf(1)
    /\ call = IdleCall
    /\ sent = <<>>
    /\ stream = [p \in Procs |-> NoStream]
    /\ handler = [p \in Procs |-> NoHandler]

\* the process p can take a request
Serving(p) == At(p, "idle") /\ handler[p].pc = "idle" /\ stream[p] = NoStream

\* the handler returns the error of validatePath
Rejects(p, op, path) ==
    /\ last' = Result(op, p, path, <<>>, InvalidArgument(validatePath(path)))
    /\ UNCHANGED <<trie, objs, currentDir, mu, proc>>
    /\ UNCHANGED rpcvars

ServerListDir(p, path) ==
    /\ Serving(p)
    /\ IF validatePath(path) # Ok
       THEN Rejects(p, "Server.ListDir", path)
       ELSE ListDirCall(p, path)

ServerMakeDir(p, path) ==
    /\ Serving(p)
    /\ IF validatePath(path) # Ok
       THEN Rejects(p, "Server.MakeDir", path)
       ELSE MakeDir(p, path)

ServerRemove(p, path) ==
    /\ Serving(p)
    /\ IF validatePath(path) # Ok
       THEN Rejects(p, "Server.Remove", path)
       ELSE RemoveCall(p, path)

ServerCreateFile(p, path) ==
    /\ Serving(p)
    /\ IF validatePath(path) # Ok
       THEN Rejects(p, "Server.CreateFile", path)
       ELSE NewFile(p, path)

ServerReadFile(p, path) ==
    /\ Serving(p)
    /\ IF validatePath(path) # Ok
       THEN Rejects(p, "Server.ReadFile", path)
       ELSE ReadCall(p, path)

\* ReadFile inside the copy of File.Read: the content is handed to
\* streamWriter.Write in one piece, stream.Send fails with err and Write
\* returns 0 and err; the copy, File.Read (with its deferred RUnlock) and
\* fs.Read return the error, and the handler returns it.  Nothing is
\* written, and so nothing sent, when the content is empty.
ServerSendFails(p, err) ==
    /\ At(p, "FileReadCopy")
    /\ err # Ok
    /\ objs[proc[p].file].content # <<>>
    /\ objs' = [objs EXCEPT ![proc[p].file].r = @ \ {p}]
    /\ last' = [Result("Read", p, proc[p].src, <<>>, err)
                  EXCEPT !.file = proc[p].file]
    /\ proc' = [proc EXCEPT ![p] = Idle]
    /\ UNCHANGED <<trie, currentDir, mu>>
    /\ UNCHANGED rpcvars

\* the handler of a request with one path returns what the engine returned
ServerReturn ==
    /\ last.op \notin {"Write", "Server.WriteFile"}
    /\ ~(last.op = "ListDir" /\ last.err = Ok)
    /\ Return

\* ListDir after s.fs.ListDir has returned without error: the handler has
\* the lists and goes on to make the ListResponse
ServerListDirLists(p) ==
    /\ last.op = "ListDir"
    /\ last.p = p
    /\ last.err = Ok
    /\ handler' = [handler EXCEPT
                     ![p] = [NoHandler EXCEPT !.pc = "Sizes",
                                              !.path = last.src,
                                              !.files = last.files,
                                              !.dirs = last.dirs]]
    /\ last' = NoResult
    /\ UNCHANGED fsvars
    /\ UNCHANGED <<servers, call, sent, stream>>

\* the handler of ListDir is in its loop over the files
Sizing(p) ==
    handler[p].pc = "Sizes" /\ Len(handler[p].sizes) < Len(handler[p].files)

\* the file whose Size() the loop calls next
NextSized(p) == handler[p].files[Len(handler[p].sizes) + 1]

\* one turn of the loop over the files: file.Size() takes the read lock of
\* the file, reads the length of the content and releases the lock
ServerSize(p) ==
    /\ Sizing(p)
    /\ CanRLock(objs[NextSized(p)])
    /\ handler' = [handler EXCEPT ![p].sizes = Append(@, Size(NextSized(p)))]
    /\ UNCHANGED <<fsvars, last, servers, call, sent, stream>>

\* the loops are over: the handler returns the ListResponse
ServerListDirReply(p) ==
    /\ last.op = ""
    /\ handler[p].pc = "Sizes"
    /\ ~Sizing(p)
    /\ last' = [Result("ListResponse", p, handler[p].path, <<>>, Ok)
                  EXCEPT !.files = handler[p].files,
                         !.dirs = handler[p].dirs,
                         !.out = handler[p].sizes]
    /\ handler' = [handler EXCEPT ![p] = NoHandler]
    /\ UNCHANGED fsvars
    /\ UNCHANGED <<servers, call, sent, stream>>

\* the messages the peer of a WriteFile sends: a path, or data; after its
\* first message it sends data
PeerMsgs ==
    {PathMsg(path) : path \in {<<>>, <<"a">>, <<"/", "a">>, <<"/", "c">>}}
       \cup {DataMsg(data) : data \in {<<1>>, <<1, 2>>}}

\* the process p has no request but a WriteFile whose handler has not
\* returned
StreamOpen(p) ==
    \/ handler[p].pc = "Write"
    \/ At(p, "idle") /\ handler[p].pc = "idle" /\ handler[p].recvd = 0

\* the peer sends a message on the stream of a WriteFile
PeerSend(p, msg) ==
    /\ StreamOpen(p)
    /\ ~stream[p].closed
    /\ Len(stream[p].msgs) < 1 + MaxChunks
    /\ stream[p].msgs # <<>> => msg.kind = "data"
    /\ stream' = [stream EXCEPT ![p].msgs = Append(@, msg)]
    /\ UNCHANGED <<fsvars, last, servers, call, sent, handler>>

\* the peer closes its side of the stream
PeerClose(p) ==
    /\ StreamOpen(p)
    /\ ~stream[p].closed
    /\ stream' = [stream EXCEPT ![p].closed = TRUE]
    /\ UNCHANGED <<fsvars, last, servers, call, sent, handler>>

\* stream.Recv has a message to return
HasMsg(p) == handler[p].recvd < Len(stream[p].msgs)

\* stream.Recv returns io.EOF
AtEOF(p) == ~HasMsg(p) /\ stream[p].closed

\* the message that stream.Recv returns
NextMsg(p) == stream[p].msgs[handler[p].recvd + 1]

GetPath(msg) == IF msg.kind = "path" THEN msg.val ELSE <<>>

GetData(msg) == IF msg.kind = "data" THEN msg.val ELSE <<>>

\* the path names a file: a Write of it reaches the file
Resolves(path) == findNode(path) # Nil /\ IsFile(findNode(path))

\* WriteFile up to the call of fs.Write: the first Recv, which returns
\* io.EOF, the error err of a stream that broke before its end, or a
\* message; the handler returns nil at io.EOF, the error of Recv, and an
\* error when the message has no path
\* (the stream of a Write that would go over MaxWrites is not taken up)
ServerWriteFile(p, err) ==
    /\ At(p, "idle")
    /\ handler[p].pc = "idle"
    /\ handler[p].recvd = 0
    /\ IF AtEOF(p)
       THEN /\ err = Ok
            /\ last' = Result("Server.WriteFile", p, <<>>, <<>>, Ok)
            /\ UNCHANGED handler
       ELSE IF err # Ok
       THEN /\ last' = Result("Server.WriteFile", p, <<>>, <<>>, err)
            /\ UNCHANGED handler
       ELSE /\ HasMsg(p)
            /\ IF GetPath(NextMsg(p)) = <<>>
               THEN /\ last' = Result("Server.WriteFile", p, <<>>, <<>>,
                                      ErrFirstMessage)
                    /\ handler' = [handler EXCEPT ![p].recvd = 1]
               ELSE /\ Resolves(GetPath(NextMsg(p))) => CanWrite
                    /\ last' = NoResult
                    /\ handler' = [handler EXCEPT
                                     ![p] = [NoHandler EXCEPT
                                               !.pc = "Write",
                                               !.path = GetPath(NextMsg(p)),
                                               !.recvd = 1]]
    /\ UNCHANGED <<fsvars, servers, call, sent, stream>>

\* s.fs.Write(in.GetPath(), reader) up to File.Write: the file is resolved
ServerWrite(p) ==
    /\ handler[p].pc = "Write"
    /\ WriteCall(p, handler[p].path, <<>>)

\* the lengths of the buffers that File.Write's copy passes to Read
ReadLens == 1..MaxChunkLen

\* streamReader.Read(b) inside the copy of File.Write, with len(b) = n: a
\* message is received and the first n bytes of its data are copied; the
\* rest stays in the buf of the copy of the reader that Read works on
ServerRead(p, n) ==
    /\ At(p, "FileWriteCopy")
    /\ handler[p].pc = "Write"
    /\ HasMsg(p)
    /\ LET data == GetData(NextMsg(p))
       IN  proc' = [proc EXCEPT
                      ![p].data = @ \o SubSeq(data, 1, Min(n, Len(data)))]
    /\ handler' = [handler EXCEPT ![p].recvd = @ + 1]
    /\ last' = NoResult
    /\ UNCHANGED <<trie, objs, currentDir, mu, servers, call, sent, stream>>

\* streamReader.Read returns io.EOF: the copy ends, File.Write assigns the
\* content and fs.Write returns
ServerReadEOF(p) ==
    /\ handler[p].pc = "Write"
    /\ AtEOF(p)
    /\ FileWriteCopy(p)

\* File.Write assigning what it has copied when the copy fails
ServerReadErrAssigns(p, err) ==
    /\ At(p, "FileWriteCopy")
    /\ handler[p].pc = "Write"
    /\ ~AtEOF(p)
    /\ err # Ok
    /\ objs' = [objs EXCEPT
                  ![proc[p].file].content = FileWrite(@, proc[p].data),
                  ![proc[p].file].w = 0]
    /\ proc' = [proc EXCEPT ![p] = Idle]
    /\ last' = [Result("Server.WriteFile", p, handler[p].path, <<>>, err)
                  EXCEPT !.file = proc[p].file]
    /\ handler' = [handler EXCEPT ![p].pc = "idle"]
    /\ UNCHANGED <<trie, currentDir, mu, servers, call, sent, stream>>

\* streamReader.Read returns another error: File.Write returns it without
\* assigning the content, and so does the handler
ServerReadErr(p, err) ==
    /\ At(p, "FileWriteCopy")
    /\ handler[p].pc = "Write"
    /\ ~AtEOF(p)
    /\ err # Ok
    /\ objs' = [objs EXCEPT ![proc[p].file].w = 0]
    /\ proc' = [proc EXCEPT ![p] = Idle]
    /\ last' = [Result("Server.WriteFile", p, handler[p].path, <<>>, err)
                  EXCEPT !.file = proc[p].file]
    /\ handler' = [handler EXCEPT ![p].pc = "idle"]
    /\ UNCHANGED <<trie, currentDir, mu, servers, call, sent, stream>>

\* fs.Write has returned an error: the handler returns it
ServerWriteFails(p) ==
    /\ handler[p].pc = "Write"
    /\ last.op = "Write"
    /\ last.p = p
    /\ last.err # Ok
    /\ last' = Result("Server.WriteFile", p, handler[p].path, <<>>, last.err)
    /\ handler' = [handler EXCEPT ![p].pc = "idle"]
    /\ UNCHANGED <<fsvars, servers, call, sent, stream>>

\* the status sent before fs.Write is called
SendAndCloseFirst(p, err) ==
    /\ handler[p].pc = "Write"
    /\ At(p, "idle")
    /\ stream' = [stream EXCEPT ![p].status = "SUCCESS"]
    /\ last' = Result("Server.WriteFile", p, handler[p].path, <<>>, Ok)
    /\ handler' = [handler EXCEPT ![p].pc = "idle"]
    /\ UNCHANGED <<fsvars, servers, call, sent>>

\* fs.Write has returned nil: stream.SendAndClose(SUCCESS)
ServerSendAndClose(p, err) ==
    /\ handler[p].pc = "Write"
    /\ last.op = "Write"
    /\ last.p = p
    /\ last.err = Ok
    /\ stream' = [stream EXCEPT ![p].status =
                                   IF err = Ok THEN "SUCCESS" ELSE @]
    /\ last' = [Result("Server.WriteFile", p, handler[p].path, <<>>, err)
                  EXCEPT !.file = last.file, !.n = last.n]
    /\ handler' = [handler EXCEPT ![p].pc = "idle"]
    /\ UNCHANGED <<fsvars, servers, call, sent>>


\* the handler of WriteFile has returned: the stream is over
ServerStreamReturn ==
    /\ last.op = "Server.WriteFile"
    /\ last' = NoResult
    /\ stream' = [stream EXCEPT ![last.p] = NoStream]
    /\ handler' = [handler EXCEPT ![last.p] = NoHandler]
    /\ UNCHANGED <<fsvars, servers, call, sent>>

NextServer ==
    \/ ServerReturn
    \/ \E p \in Repl, path \in ServerPaths : ServerListDir(p, path)
    \/ \E p \in Repl : ListDirLocked(p)
    \/ \E p \in Repl : ServerListDirLists(p)
    \/ \E p \in Repl : ServerSize(p)
    \/ \E p \in Repl : ServerListDirReply(p)
    \/ \E p \in Repl, path \in ServerPaths : ServerMakeDir(p, path)
    \/ \E p \in Repl, path \in ServerPaths : ServerRemove(p, path)
    \/ \E p \in Repl : RemoveLocked(p)
    \/ \E p \in Repl, path \in ServerPaths : ServerCreateFile(p, path)
    \/ \E p \in Repl, path \in ServerPaths : ServerReadFile(p, path)
    \/ \E p \in Repl : FileReadLock(p)
    \/ \E p \in Repl : FileReadCopy(p)
    \/ \E p \in Repl : ServerSendFails(p, ErrUnavailable)
    \/ \E p \in Repl, msg \in PeerMsgs : PeerSend(p, msg)
    \/ \E p \in Repl : PeerClose(p)
    \/ \E p \in Repl, err \in Outcomes : ServerWriteFile(p, err)
    \/ \E p \in Repl : ServerWrite(p)
    \/ \E p \in Repl : FileWriteLock(p)
    \/ \E p \in Repl, n \in ReadLens : ServerRead(p, n)
    \/ \E p \in Repl : ServerReadEOF(p)
    \/ \E p \in Repl : ServerReadErr(p, ErrUnavailable)
    \/ \E p \in Repl : ServerWriteFails(p)
    \/ \E p \in Repl, err \in Outcomes : ServerSendAndClose(p, err)
    \/ ServerStreamReturn

Server == InitServer /\ [][NextServer]_vars

\* ------------------------------------------------------------------------
\* Two requests at a time on one server: the handler of the process of
\* Repl creates files and handles the streams of WriteFile, and the
\* handler of the other process lists the root.  The server runs each
\* handler in a goroutine of its own: the steps of the handler of ListDir
\* wait for the locks only, whatever the position of the other handler,
\* also between the return of its fs.Write and its SendAndClose.  The
\* handler of ListDir keeps its position and its result in handler[p]
\* (pc = "Returned" once it has returned, err its error) and leaves last
\* to the other handler.
\* ------------------------------------------------------------------------
Listers == Procs \ Repl

\* ListDir up to s.fs.ListDir: the path is validated
ListerListDir(p, path) ==
    /\ proc[p].pc = "idle"
    /\ handler[p].pc \in {"idle", "Returned"}
    /\ IF validatePath(path) # Ok
       THEN /\ handler' = [handler EXCEPT
                             ![p] = [NoHandler EXCEPT
                                       !.pc = "Returned",
                                       !.path = path,
                                       !.err = InvalidArgument(
                                                  validatePath(path))]]
            /\ UNCHANGED proc
       ELSE /\ handler' = [handler EXCEPT
                             ![p] = [NoHandler EXCEPT !.pc = "ListDir",
                                                      !.path = path]]
            /\ proc' = [proc EXCEPT
                          ![p] = [Idle EXCEPT !.pc = "ListDir", !.src = path,
                                              !.absSrc = path]]
    /\ UNCHANGED <<trie, objs, currentDir, mu, last>>
    /\ UNCHANGED <<servers, call, sent, stream>>

\* s.fs.ListDir from RLock to RUnlock: the handler returns its error, or
\* has the lists and goes on to make the ListResponse
ListerListDirLocked(p) ==
    /\ handler[p].pc = "ListDir"
    /\ proc[p].pc = "ListDir"
    /\ CanRLock(mu)
    /\ LET res == ListDir(proc[p].absSrc)
       IN  IF res.err # Ok
           THEN handler' = [handler EXCEPT ![p].pc = "Returned",
                                           ![p].err = res.err]
           ELSE handler' = [handler EXCEPT ![p].pc = "Sizes",
                                           ![p].files = res.files,
                                           ![p].dirs = res.dirs]
    /\ proc' = [proc EXCEPT ![p] = Idle]
    /\ UNCHANGED <<trie, objs, currentDir, mu, last>>
    /\ UNCHANGED <<servers, call, sent, stream>>

\* the loops are over: the handler returns the ListResponse, which has
\* the files, their sizes and the directories
ListerReply(p) ==
    /\ handler[p].pc = "Sizes"
    /\ ~Sizing(p)
    /\ handler' = [handler EXCEPT ![p].pc = "Returned"]
    /\ UNCHANGED <<fsvars, last, servers, call, sent, stream>>

\* the files that are created and written
HandlersPaths == { <<"/", "a">>, <<"/", "b">> }

\* the messages of the streams
HandlersMsgs ==
    {PathMsg(<<"/", "a">>), PathMsg(<<"/", "b">>), PathMsg(<<"/", "c">>),
     DataMsg(<<1>>)}

\* the directories that are listed
ListedPaths == { <<"/">>, <<"/", "b">>, <<"/", "c">> }

NextHandlers ==
    \/ ServerReturn
    \/ \E p \in Repl, path \in HandlersPaths : ServerCreateFile(p, path)
    \/ \E p \in Repl, msg \in HandlersMsgs : PeerSend(p, msg)
    \/ \E p \in Repl : PeerClose(p)
    \/ \E p \in Repl, err \in Outcomes : ServerWriteFile(p, err)
    \/ \E p \in Repl : ServerWrite(p)
    \/ \E p \in Repl : FileWriteLock(p)
    \/ \E p \in Repl, n \in ReadLens : ServerRead(p, n)
    \/ \E p \in Repl : ServerReadEOF(p)
    \/ \E p \in Repl : ServerReadErr(p, ErrUnavailable)
    \/ \E p \in Repl : ServerWriteFails(p)
    \/ \E p \in Repl, err \in Outcomes : ServerSendAndClose(p, err)
    \/ ServerStreamReturn
    \/ \E p \in Listers, path \in ListedPaths : ListerListDir(p, path)
    \/ \E p \in Listers : ListerListDirLocked(p)
    \/ \E p \in Listers : ServerSize(p)
    \/ \E p \in Listers : ListerReply(p)

Handlers == InitServer /\ [][NextHandlers]_vars


\* ------------------------------------------------------------------------
\* Properties
\* ------------------------------------------------------------------------
\* the data of the completed Write calls on a file, one after the other
RECURSIVE Flatten(_)
Flatten(ws) == IF ws = <<>> THEN <<>> ELSE Head(ws) \o Flatten(Tail(ws))

ReadReturned == last.op = "Read" /\ last.err = Ok

WriteReturned == last.op = "Write" /\ last.err = Ok

\* C1: on a file that was created and then written once with data, Write
\* returns len(data), and a Read that follows delivers exactly data and
\* returns len(data).
C1_RoundTrip ==
    /\ (WriteReturned /\ Len(objs[last.file].writes) = 1)
          => last.n = Len(objs[last.file].writes[1])
    /\ (ReadReturned /\ Len(objs[last.file].writes) = 1)
          => /\ last.out = objs[last.file].writes[1]
             /\ last.n = Len(objs[last.file].writes[1])

C1_Witness ==
    /\ ReadReturned
    /\ Len(objs[last.file].writes) = 1
    /\ last.out # <<>>
    /\ last.out = objs[last.file].writes[1]

\* C2 as claimed: after Write(p, A) and then Write(p, B), Read(p) yields
\* exactly B and the size of the file is len(B).
C2_WriteReplaces ==
    (ReadReturned /\ Len(objs[last.file].writes) = 2)
       => /\ last.out = objs[last.file].writes[2]
          /\ Size(last.file) = Len(objs[last.file].writes[2])

\* C2 as amended: Write appends.  Read(p) yields the data of all Write
\* calls on p in their order (A followed by B), and the size of the file
\* is the sum of their lengths.
C2_WriteAppends ==
    ReadReturned
       => /\ last.out = Flatten(objs[last.file].writes)
          /\ Size(last.file) = Len(Flatten(objs[last.file].writes))

C2_Witness ==
    /\ ReadReturned
    /\ Len(objs[last.file].writes) = 2
    /\ objs[last.file].writes[1] # <<>>
    /\ last.out = objs[last.file].writes[1] \o objs[last.file].writes[2]
    /\ last.out # objs[last.file].writes[2]

\* the children of the directory that a Remove has resolved to s
Childless(s) == trieListAtNode(trie, findNode(s)) = <<>>

\* C3: Remove(d) on an existing directory d that has no children and is
\* neither the root nor the current directory returns success, and then d
\* no longer resolves and is not listed in its parent.  The call has found
\* d to be such a directory when it calls ListDir; from there it goes on
\* to its return (ListDir gets the read lock), the result is success and
\* d is out of the index.
C3_RemoveEmptyDir ==
    \A p \in Procs :
        (proc[p].pc = "RemoveListDir" /\ Childless(proc[p].absSrc))
           => LET s == proc[p].absSrc
                  rem == removeListed(s, ListDir(s))
              IN  /\ CanRLock(mu)
                  /\ rem.err = Ok
                  /\ trieFind(rem.trie, s) = Nil

\* C4: Remove(d) on a directory d that has a child returns
\* ErrDirNotEmpty and leaves the namespace unchanged.  The call has found
\* d to be a directory when it calls ListDir; from there it goes on to its
\* return, the result is ErrDirNotEmpty and the index is the same.
C4_RemoveNonEmptyDir ==
    \A p \in Procs :
        (proc[p].pc = "RemoveListDir" /\ ~Childless(proc[p].absSrc))
           => LET s == proc[p].absSrc
                  rem == removeListed(s, ListDir(s))
              IN  /\ CanRLock(mu)
                  /\ rem.err = ErrDirNotEmpty
                  /\ rem.trie = trie

\* C5: the root "/" is in the index in every reachable state, and
\* Remove("/") fails.
C5_RootExists ==
    /\ trieFind(trie, SeperatorStr) = objs[root].node
    /\ (last.op = "Remove" /\ last.src = SeperatorStr) => last.err # Ok

\* a Move of caller p returns in this step
MoveReturns(p) == proc[p].pc = "Move" /\ last'.op = "Move"

\* C6: after Move(src, dst) has succeeded for a file src, src no longer
\* resolves, dst resolves to the file (with the content it had), and the
\* number of nodes of the namespace is the same.
C6_MoveFile ==
    [][\A p \in Procs :
          (MoveReturns(p) /\ last'.err = Ok /\ findNode(proc[p].src) # Nil
             /\ IsFile(findNode(proc[p].src)))
             => /\ (findNode(last.src))' = Nil
                /\ (findNode(last.dst))' # Nil
                /\ (trieMeta(trie, findNode(last.dst)))'
                      = trieMeta(trie, findNode(proc[p].src))
                /\ objs' = objs
                /\ Cardinality(trie.keys)' = Cardinality(trie.keys)]_vars

\* C7 as claimed: Move(src, dst) returns ErrAlreadyExist whenever dst
\* resolves to an existing node, and the namespace is unchanged.
C7_MoveOntoExisting ==
    [][(last.op = "" /\ last'.op = "Move" /\ findNode(last'.dst) # Nil)
          => /\ last'.err = ErrAlreadyExist
             /\ trie' = trie
             /\ objs' = objs]_vars

\* C7 as amended: Move(src, dst) with src resolving to an existing node
\* returns ErrAlreadyExist whenever dst resolves to an existing node, and
\* the namespace is unchanged: src and dst resolve to the same nodes with
\* the same content.
C7_MoveExistingOntoExisting ==
    [][(last.op = "" /\ last'.op = "Move" /\ findNode(last'.src) # Nil
          /\ findNode(last'.dst) # Nil)
          => /\ last'.err = ErrAlreadyExist
             /\ trie' = trie
             /\ objs' = objs
             /\ (findNode(last.src))' = findNode(last'.src)
             /\ (findNode(last.dst))' = findNode(last'.dst)]_vars

C7_Witness ==
    /\ last.op = "Move"
    /\ last.err = ErrAlreadyExist
    /\ findNode(last.src) # Nil
    /\ IsFile(findNode(last.src))
    /\ findNode(last.dst) # Nil
    /\ findNode(last.dst) # findNode(last.src)

\* the current directory is in the index under its own path
CurrentDirListed ==
    objs[currentDir].node \in trie.keys

\* C8: with the current directory a directory D other than the root,
\* Move(src, dst) with a relative dst that does not exist in D and a src
\* (relative or absolute) that resolves to a file succeeds; afterwards dst
\* resolves to the file, under D, and src no longer resolves.
C8_RelativeMove ==
    [][\A p \in Procs :
          (MoveReturns(p) /\ currentDir # root /\ CurrentDirListed
             /\ ~isAbs(proc[p].dst)
             /\ findNode(proc[p].src) # Nil /\ IsFile(findNode(proc[p].src))
             /\ findNode(proc[p].dst) = Nil)
             => /\ last'.err = Ok
                /\ (findNode(last.src))' = Nil
                /\ (findNode(last.dst))' # Nil
                /\ (trieMeta(trie, findNode(last.dst)))'
                      = trieMeta(trie, findNode(proc[p].src))]_vars

\* the key of the directory that holds the entry under key: key without
\* its final segment
ParentKey(key) ==
    LET e == IF HasSuffix(key, SeperatorStr) THEN Len(key) - 1 ELSE Len(key)
        i == CHOOSE j \in 1..e :
                /\ key[j] = Separator
                /\ \A k \in (j + 1)..e : key[k] # Separator
    IN  SubSeq(key, 1, i)

\* the final segment of key
FinalSegment(key) ==
    LET e == IF HasSuffix(key, SeperatorStr) THEN Len(key) - 1 ELSE Len(key)
    IN  SubSeq(key, Len(ParentKey(key)) + 1, e)

\* the key that the directory path s0 names: in directory form, from the
\* root if absolute and from the current directory if relative
DirKey(s0) ==
    LET s == normalizeDirPath(s0)
    IN  IF isAbs(s) THEN s ELSE triePath(trie, objs[currentDir].node) \o s

\* key names a directory that is in the index
ExistsDir(key) ==
    /\ trieFind(trie, key) # Nil
    /\ IsDir(trieFind(trie, key))

\* s0 is a directory path that MakeDir can be asked to create: no "." or
\* ".." segment, a final segment, a parent directory in the index and no
\* entry of that name in the parent
Creatable(s0) ==
    LET key == DirKey(s0)
    IN  /\ validateName(s0) = Ok
        /\ Len(key) >= 2
        /\ isAbs(key)
        /\ FinalSegment(key) # <<>>
        /\ ExistsDir(ParentKey(key))
        /\ trieFind(trie, key) = Nil
        /\ trieFind(trie, SubSeq(key, 1, Len(key) - 1)) = Nil

\* the key of the directory made last
MadeKey == triePath(trie, objs[Len(objs)].node)

\* the directory made last is a directory, the list of its parent has it
\* once, among the directories, and the parent holds one entry with its
\* final segment
MadeDirListed ==
    LET new == Len(objs)
        parent == ParentKey(MadeKey)
        res == ListDir(parent)
    IN  /\ objs[new].nt = dirType
        /\ res.err = Ok
        /\ \A i \in DOMAIN res.files : res.files[i] # new
        /\ Cardinality({i \in DOMAIN res.dirs : res.dirs[i] = new}) = 1
        /\ Cardinality({c \in trie.keys :
              /\ trieIsChild(parent, triePath(trie, c))
              /\ FinalSegment(triePath(trie, c)) = FinalSegment(MadeKey)}) = 1

\* C9 as claimed: for every directory path p, absolute or relative, whose
\* parent directory exists (the root or any deeper directory) and holds no
\* entry with the final segment of p, MakeDir(p) succeeds, the directory
\* is made under the key that p names, and a following ListDir of the
\* parent has the final segment of p once among the directories.
C9_MakeDirAnyDepth ==
    /\ [][(last.op = "" /\ last'.op = "MakeDir" /\ Creatable(last'.src))
             => /\ last'.err = Ok
                /\ MadeKey' = DirKey(last'.src)]_vars
    /\ []((last.op = "MakeDir" /\ last.err = Ok
             /\ ExistsDir(ParentKey(MadeKey))) => MadeDirListed)

\* s0 names one segment under the root (absolute) or under the current
\* directory (relative)
OneSegment(s0) ==
    LET s == normalizeDirPath(s0)
    IN  Len(Split(IF isAbs(s) THEN Tail1(s) ELSE s)) = 2

\* C9 as amended: for every directory path p that names one segment,
\* directly under the root if absolute and directly under the current
\* directory if relative, whose parent is in the index and holds no entry
\* with that segment, MakeDir(p) succeeds, the directory is made under the
\* key that p names, and a following ListDir of the parent has the segment
\* once among the directories; a path of more segments whose parent exists
\* fails with ErrNotSupported and changes nothing.
C9_MakeDirOneSegment ==
    /\ [][(last.op = "" /\ last'.op = "MakeDir" /\ Creatable(last'.src))
             => IF OneSegment(last'.src)
                THEN /\ last'.err = Ok
                     /\ MadeKey' = DirKey(last'.src)
                ELSE /\ last'.err = ErrNotSupported
                     /\ trie' = trie
                     /\ objs' = objs]_vars
    /\ []((last.op = "MakeDir" /\ last.err = Ok
             /\ ExistsDir(ParentKey(MadeKey))) => MadeDirListed)

C9_Witness ==
    /\ last.op = "MakeDir"
    /\ last.err = Ok
    /\ ~isAbs(last.src)
    /\ currentDir # root
    /\ MadeKey = DirKey(last.src)
    /\ MadeDirListed

\* the key that the path d of a ListDir names
ListKey(d) == DirKey(d)

\* the objects stored directly under the directory key
Children(key) ==
    {trieMeta(trie, n) : n \in {c \in trie.keys :
                                   trieIsChild(key, triePath(trie, c))}}

\* C10: ListDir(d) on an existing directory d, relative or absolute, with
\* or without the trailing separator, returns the files and directories
\* whose parent is d, each once and no other entry; ListDir on a path
\* that names no existing directory fails with ErrNotFound.
C10_ListDir ==
    (last.op = "ListDir" /\ last.src # <<>>)
       => LET key == ListKey(last.src)
              listed == {last.files[i] : i \in DOMAIN last.files}
                           \cup {last.dirs[i] : i \in DOMAIN last.dirs}
          IN  IF ExistsDir(key)
              THEN /\ last.err = Ok
                   /\ listed = Children(key)
                   /\ Len(last.files) + Len(last.dirs)
                         = Cardinality(Children(key))
                   /\ \A i \in DOMAIN last.files :
                         objs[last.files[i]].nt = fileType
                   /\ \A i \in DOMAIN last.dirs :
                         objs[last.dirs[i]].nt = dirType
              ELSE last.err = ErrNotFound

\* a file and a directory of the same name in the same parent: the index
\* holds an entry under a key and a directory under that key in directory
\* form
SharedName(n, m) ==
    /\ triePath(trie, m) = triePath(trie, n) \o SeperatorStr
    /\ IsFile(n)
    /\ IsDir(m)

\* C11: in every reachable state no directory holds both a file and a
\* directory of the same name; a Move that would make two such entries
\* does not succeed.
C11_NoSharedName ==
    \A n \in trie.keys : \A m \in trie.keys : ~SharedName(n, m)

\* caller q has resolved a file and File.Read is copying it to the
\* caller's writer, under the file's read lock
Streaming(q) == proc[q].pc = "FileReadCopy"

\* caller q holds the lock of the namespace
HoldsNamespace(q) == mu.w = q \/ q \in mu.r

\* C12: if a Read of a file has resolved the file and is streaming when a
\* Move of the file runs, the Move does not wait for the Read (the reader
\* holds no lock of the namespace, and the Move leaves the reader and the
\* content alone), the content stays what it is while the Read streams,
\* and the Read returns all of it without error.
C12_ReadSurvivesMove ==
    /\ [](\A q \in Procs : Streaming(q) =>
             /\ ~HoldsNamespace(q)
             /\ \A p \in Procs : At(p, "Move") => CanLock(mu))
    /\ [][\A q \in Procs :
             (Streaming(q) /\ Streaming(q)')
                => /\ proc'[q] = proc[q]
                   /\ objs'[proc[q].file].content = objs[proc[q].file].content]_vars
    /\ [][\A q \in Procs :
             (Streaming(q) /\ ~Streaming(q)')
                => /\ last'.op = "Read"
                   /\ last'.p = q
                   /\ last'.err = Ok
                   /\ last'.out = objs[proc[q].file].content
                   /\ last'.n = Len(objs[proc[q].file].content)]_vars

\* a Move of a file with content has returned while a Read of the file is
\* streaming: the path the Read was given no longer resolves
C12_Witness ==
    /\ last.op = "Move"
    /\ last.err = Ok
    /\ \E q \in Procs :
          /\ Streaming(q)
          /\ q # last.p
          /\ objs[proc[q].file].content # <<>>
          /\ findNode(proc[q].src) = Nil
          /\ findNode(last.dst) # Nil
          /\ trieMeta(trie, findNode(last.dst)) = proc[q].file

\* caller q is inside File.Write or File.Read, copying from or to the
\* stream it was given, which may stall
Stalled(q) == proc[q].pc \in {"FileWriteCopy", "FileReadCopy"}

\* the call of caller p does not wait: the lock its next step takes is
\* free
Proceeds(p) ==
    /\ proc[p].pc \in {"idle", "Remove", "Move"} => CanLock(mu)
    /\ proc[p].pc \in {"ListDir", "RemoveListDir"} => CanRLock(mu)
    /\ proc[p].pc = "FileWrite" => CanLock(objs[proc[p].file])
    /\ proc[p].pc = "FileRead" => CanRLock(objs[proc[p].file])

\* C13: while a Write or Read of a file is stalled on its stream, the
\* caller holds no lock of the namespace, and every call of another
\* caller that does not concern that file (MakeDir, NewFile, Move,
\* ChangeDir, ListDir, Remove, Read and Write of another file) goes on to
\* its return without waiting.
C13_StalledTransfer ==
    \A q \in Procs :
        Stalled(q) =>
           /\ ~HoldsNamespace(q)
           /\ \A p \in Procs \ {q} :
                 (proc[p].file # proc[q].file) => Proceeds(p)

\* the callers inside File.Write of file f, past f.mu.Lock()
Writers(f) == {q \in Procs : proc[q].pc = "FileWriteCopy" /\ proc[q].file = f}

\* the callers inside File.Read of file f, past f.mu.RLock()
Readers(f) == {q \in Procs : proc[q].pc = "FileReadCopy" /\ proc[q].file = f}

\* C14: per file, a Write is never active together with another Write or
\* with a Read of the file; the content of a file is at all times the
\* data of its completed Writes, so a Read that overlaps a Write returns
\* the whole content from before that Write or the whole content after
\* it.
C14_OneWriterOrReaders ==
    /\ \A f \in DOMAIN objs :
          /\ Cardinality(Writers(f)) <= 1
          /\ Writers(f) # {} => Readers(f) = {}
          /\ objs[f].content = Flatten(objs[f].writes)
    /\ (last.op = "Read" /\ last.err = Ok) =>
          \E k \in 0..Len(objs[last.file].writes) :
             last.out = Flatten(SubSeq(objs[last.file].writes, 1, k))

\* a Write of a file is active while a Read of the same file has resolved
\* the file and waits for the file's lock
C14_Witness ==
    \E p \in Procs, q \in Procs :
       /\ proc[p].pc = "FileWriteCopy"
       /\ proc[p].data # <<>>
       /\ proc[q].pc = "FileRead"
       /\ proc[q].file = proc[p].file
       /\ Readers(proc[p].file) = {}

\* findNode and normalizePath with the directory c as the current
\* directory
findNodeFrom(c, path) ==
    trieFindAtNode(trie, path, IF isAbs(path) THEN trieRoot ELSE objs[c].node)

normalizePathFrom(c, path) ==
    IF isAbs(path) THEN path ELSE AbsolutePath(c) \o path

\* the outcome of Move(src, dst) run in one piece on the present index
\* with the directory c as the current directory
MoveSerial(c, src, dst) ==
    LET srcNode == findNodeFrom(c, src)
        dstNode == findNodeFrom(c, dst)
    IN  IF srcNode = Nil THEN [err |-> ErrNotFound, trie |-> trie]
        ELSE IF dstNode # Nil THEN [err |-> ErrAlreadyExist, trie |-> trie]
        ELSE [err |-> Ok,
              trie |-> trieAdd(trieRemove(trie, normalizePathFrom(c, src)),
                               normalizePathFrom(c, dst),
                               trieMeta(trie, srcNode))]

\* C15: a Move that runs concurrently with ChangeDir calls resolves all
\* of its relative paths against one value of the current directory: the
\* result it returns and the index it leaves are those of the Move run in
\* one piece with some directory as the current directory.
C15_MoveLinearizable ==
    [][\A p \in Procs :
          MoveReturns(p) =>
             \E c \in DOMAIN objs :
                /\ objs[c].nt = dirType
                /\ last'.err = MoveSerial(c, proc[p].src, proc[p].dst).err
                /\ trie' = MoveSerial(c, proc[p].src, proc[p].dst).trie]_vars

\* the object that the last Move has put into the index
MovedObject == trieMeta(trie, Len(trie.nodes))

\* a lookup of path finds the object m
PresentAt(path, m) ==
    /\ findNode(path) # Nil
    /\ trieMeta(trie, findNode(path)) = m

\* C16: the lookups of the other callers run before or after the two
\* index updates of a Move, never between them, and in the state a Move
\* leaves when it has succeeded a lookup finds the moved node at one of
\* src and dst: not at both and not at neither.
C16_MoveAtomic ==
    (last.op = "Move" /\ last.err = Ok)
       => (PresentAt(last.src, MovedObject) # PresentAt(last.dst, MovedObject))

\* path names a file, and no directory exists under that name
NamesFileOnly(path) ==
    /\ findNode(path) # Nil
    /\ IsFile(findNode(path))
    /\ findNode(normalizeDirPath(path)) = Nil

\* nothing exists at path, neither as a file nor as a directory
NamesNothing(path) ==
    /\ findNode(path) = Nil
    /\ findNode(normalizeDirPath(path)) = Nil

ChangeDirReturns(p) == proc[p].pc = "idle" /\ last'.op = "ChangeDir" /\ last'.p = p

\* C17: ChangeDir(p) where p names a file, and no directory of that name
\* exists, returns the "directory expected" error; where nothing exists at
\* p it returns ErrNotFound, a different error.
C17_ChangeDirOnFile ==
    [][\A p \in Procs :
          ChangeDirReturns(p) =>
             /\ NamesFileOnly(last'.src) => last'.err = ErrDirExpected
             /\ NamesNothing(last'.src) => last'.err = ErrNotFound]_vars

\* the directory that ChangeDir(path) looks up, Nil when there is none
CursorTarget(path) ==
    LET node == findNode(normalizeDirPath(path))
    IN  IF node # Nil /\ IsDir(node) THEN trieMeta(trie, node) ELSE Nil

\* the path of the node that the directory m got when it was created,
\* without the separator at its end
OwnPath(m) ==
    LET path == triePath(trie, objs[m].node)
    IN  IF path = SeperatorStr THEN path ELSE TrimSuffix(path, SeperatorStr)

\* the index holds the directory m under the path out
ResolvesTo(out, m) ==
    LET node == trieFind(trie, normalizeDirPath(out))
    IN  node # Nil /\ trieMeta(trie, node) = m

\* C18: there is one current directory for all callers.  It is the root
\* after New; a ChangeDir that succeeds sets it to the directory its path
\* resolves to, a ChangeDir that fails leaves it as it is, and no step of
\* any other operation changes it.  CurrentDir, whoever calls it, reports
\* the path of that directory, and that path resolves to it as long as the
\* directory is in the index under the key it was created with.
C18_SharedCursor ==
    /\ currentDir = root
    /\ [][\A p \in Procs :
             ChangeDirReturns(p) =>
                IF last'.err = Ok
                THEN /\ CursorTarget(last'.src) # Nil
                     /\ currentDir' = CursorTarget(last'.src)
                ELSE currentDir' = currentDir]_vars
    /\ [][currentDir' # currentDir
             => last'.op = "ChangeDir" /\ last'.err = Ok]_vars
    /\ [](last.op = "CurrentDir"
             => /\ last.out = OwnPath(currentDir)
                /\ objs[currentDir].node \in trie.keys
                      => ResolvesTo(last.out, currentDir))

\* a caller is inside a Read of a file while the other caller gets the path
\* of a directory other than the root from CurrentDir
C18_Witness ==
    /\ last.op = "CurrentDir"
    /\ last.out = <<"/", "a">>
    /\ currentDir # root
    /\ \E q \in Procs \ {last.p} : proc[q].pc = "FileReadCopy"

\* the path s, absolute or relative to the current directory, names the
\* current directory: the index holds it under the key that s stands for,
\* with or without the separator at the end
NamesCursor(s) ==
    \E n \in trie.keys :
       /\ trieMeta(trie, n) = currentDir
       /\ LET k == triePath(trie, n)
          IN  normalizeDirPath(IF isAbs(s) THEN s ELSE k \o s)
                 = normalizeDirPath(k)

\* caller p leaves the locked part of Remove
RemoveActs(p) == proc[p].pc = "Remove" /\ proc'[p].pc # "Remove"

\* C19: Remove of a path that names the current directory, in whatever
\* form, returns ErrNotSupported and leaves the index and the current
\* directory as they are.
C19_RemoveCurrentDir ==
    [][\A p \in Procs :
          (RemoveActs(p) /\ NamesCursor(proc[p].src)) =>
             /\ last'.op = "Remove"
             /\ last'.err = ErrNotSupported
             /\ trie' = trie
             /\ currentDir' = currentDir]_vars

\* the parent of the path s0 holds an entry with the final segment of s0,
\* as a directory or as a file
NameHeld(s0) ==
    LET key == DirKey(s0)
    IN  /\ Len(key) >= 2
        /\ FinalSegment(key) # <<>>
        /\ \/ trieFind(trie, key) # Nil
           \/ trieFind(trie, SubSeq(key, 1, Len(key) - 1)) # Nil

\* a MakeDir or a NewFile returns
Creates == last.op = "" /\ last'.op \in {"MakeDir", "NewFile"}

\* s0 is a path that the operation op takes: no "." or ".." segment, and
\* for NewFile no separator at the end
WellFormed(op, s0) ==
    /\ validateName(s0) = Ok
    /\ op = "NewFile" => ~HasSuffix(s0, SeperatorStr)

\* C20 as claimed: MakeDir(p) and NewFile(p) return ErrAlreadyExist when
\* the parent holds a file or a directory with the name of p, and the
\* failed call leaves the index and the objects as they are.
C20_ExistsAnyPath ==
    [][(Creates /\ WellFormed(last'.op, last'.src) /\ NameHeld(last'.src))
          => /\ last'.err = ErrAlreadyExist
             /\ trie' = trie
             /\ objs' = objs]_vars

\* C20 as amended: when the parent holds a file or a directory with the
\* name of p, MakeDir(p) and NewFile(p) return ErrAlreadyExist for a p of
\* one segment under the root (absolute) or under the current directory
\* (relative), and ErrNotSupported for a p of more segments; in both cases
\* the index and the objects stay as they are.
C20_ExistsOneSegment ==
    [][(Creates /\ WellFormed(last'.op, last'.src) /\ NameHeld(last'.src))
          => /\ last'.err = IF OneSegment(last'.src) THEN ErrAlreadyExist
                            ELSE ErrNotSupported
             /\ trie' = trie
             /\ objs' = objs]_vars

\* NewFile has returned ErrAlreadyExist for a relative name that a
\* directory of the current directory, not the root, has
C20_Witness ==
    /\ last.op = "NewFile"
    /\ last.err = ErrAlreadyExist
    /\ ~isAbs(last.src)
    /\ currentDir # root
    /\ OneSegment(last.src)
    /\ ExistsDir(DirKey(last.src))

\* a segment of the path s, between separators or the ends of s, is "."
\* or ".."
DotSegment(s) ==
    \E i \in 1..Len(s), j \in 1..Len(s) :
       /\ i = 1 \/ s[i - 1] = Separator
       /\ j = Len(s) \/ s[j + 1] = Separator
       /\ SubSeq(s, i, j) \in { <<".">>, <<".", ".">> }

\* a MakeDir, a NewFile or a Move returns
Validates == last.op = "" /\ last'.op \in {"MakeDir", "NewFile", "Move"}

\* the path s has what the operation op asks of a path apart from its
\* segments: a name for MakeDir, a name and no separator at the end for
\* NewFile
Shaped(op, s) ==
    /\ op = "MakeDir" => s \notin { <<>>, SeperatorStr }
    /\ op = "NewFile" => s # <<>> /\ ~HasSuffix(s, SeperatorStr)

\* C21: MakeDir, NewFile and Move return ErrInvalidName when a segment of
\* a path they are given is "." or "..", whether the nodes named exist or
\* not, and leave the index and the objects as they are; a path whose
\* segments only contain dots ("a.", "...") is not refused as an invalid
\* name.
C21_DotSegments ==
    [][Validates =>
          IF DotSegment(last'.src) \/ DotSegment(last'.dst)
          THEN /\ last'.err = ErrInvalidName
               /\ trie' = trie
               /\ objs' = objs
          ELSE Shaped(last'.op, last'.src) => last'.err # ErrInvalidName]_vars

\* a Move of an existing file to a destination with a ".." segment has
\* returned ErrInvalidName, and a name of three dots is in the index
C21_Witness ==
    /\ last.op = "Move"
    /\ last.err = ErrInvalidName
    /\ ~DotSegment(last.src)
    /\ findNode(last.src) # Nil
    /\ last.dst = <<"/", "a", "/", ".", ".">>
    /\ \E n \in trie.keys : triePath(trie, n) = <<"/", ".", ".", ".">>

\* the character c is in the range of the shard table entry server
InRange(server, c) ==
    /\ Ord(server.StartPrefix[1]) <= Ord(c)
    /\ Ord(c) < Ord(server.EndPrefix[1])

\* the positions in the shard table of the entries that the absolute path
\* belongs to: all for the root path, else those whose range has the
\* character after the separator
Matching(path) ==
    {i \in DOMAIN servers : path = SeperatorStr \/ InRange(servers[i], path[2])}

\* the addresses of the entries at the positions S, in the order of the
\* table
AddrsAt(S) ==
    LET all == [i \in DOMAIN servers |-> i]
    IN  [k \in DOMAIN SelectSeq(all, LAMBDA i : i \in S) |->
            servers[SelectSeq(all, LAMBDA i : i \in S)[k]].Addr]

\* C22: for an absolute path the client selects every shard for the root
\* path, and else the shards with StartPrefix <= c < EndPrefix for the
\* character c after the separator; a path that is not absolute is
\* rejected with an error.
C22_ShardSelection ==
    \A path \in ClientPaths :
       IF IsAbs(path)
       THEN /\ clientsForPath(path).err = Ok
            /\ clientsForPath(path).clients = AddrsAt(Matching(path))
       ELSE clientsForPath(path).err # Ok

\* the calls of the client that go to one shard
SingleOps == UnaryOps \cup {"Client.ReadFile", "Client.WriteFile"}

\* the one shard that the path of the call belongs to, when there is one
OneShard(path) ==
    IsAbs(path) /\ Cardinality(Matching(path)) = 1

\* C23: MakeDir, Remove, CreateFile, ReadFile and WriteFile of the client
\* send one request, to the one shard that matches the path, when one
\* shard matches (ReadFile and WriteFile unless the local file or the
\* connection fails first); when no shard or more than one shard matches
\* they return an error and no request has gone to any shard.
C23_SingleShard ==
    /\ call.op \in SingleOps =>
          /\ Len(sent) <= 1
          /\ \A k \in DOMAIN sent :
                /\ OneShard(call.path)
                /\ Matching(call.path) = {sent[k].addr}
                /\ sent[k].path = call.path
          /\ call.pc # "idle" => Len(sent) = 1
    /\ (last.op \in SingleOps /\ ~OneShard(last.src)) =>
          /\ last.err # Ok
          /\ sent = <<>>
          /\ stream[ClientStream] = NoStream
    /\ (last.op \in UnaryOps /\ OneShard(last.src)) => Len(sent) = 1
    /\ (last.op \in SingleOps \ UnaryOps /\ OneShard(last.src) /\ sent = <<>>)
          => last.err \in {ErrLocalFile, ErrUnavailable}

\* a WriteFile for a path in the ranges of two shards has returned an
\* error
C23_Witness ==
    /\ last.op = "Client.WriteFile"
    /\ last.src = <<"/", "a">>
    /\ Matching(last.src) = {1, 2}
    /\ last.err = ErrSingleServer
    /\ sent = <<>>

\* C24: ListDir of the client on an absolute path other than the root
\* whose character after the separator is in the range of no shard returns
\* an error, not empty lists.
C24_ListDirNoShard ==
    (/\ last.op = "Client.ListDir"
     /\ IsAbs(last.src)
     /\ last.src # SeperatorStr
     /\ Matching(last.src) = {})
       => last.err # Ok

\* the orders in which k workers can reach a channel
Orders(k) ==
    {o \in [1..k -> 1..k] : \A i \in 1..k, j \in 1..k : o[i] = o[j] => i = j}

\* the lists seq[o[1]], seq[o[2]], ... one after the other
RECURSIVE ConcatIn(_, _, _)
ConcatIn(seq, o, i) ==
    IF i > Len(seq) THEN <<>> ELSE seq[o[i]] \o ConcatIn(seq, o, i + 1)

\* the ListDir of the client returns
ListDirReturns == call.pc = "ListDir" /\ last'.op = "Client.ListDir"

\* C25: when the request of every matching shard has succeeded, ListDir
\* of the client returns the lists of files of all shards one after the
\* other, in some order of the shards, and likewise the lists of
\* directories; when a request has failed it returns the error of one of
\* the failed requests and no lists.
C25_ListDirMerge ==
    [][ListDirReturns =>
          LET k == Len(call.workers)
              replies == [i \in 1..k |-> call.workers[i].reply]
          IN  IF \A i \in 1..k : replies[i].err = Ok
              THEN /\ last'.err = Ok
                   /\ \E o \in Orders(k) :
                         last'.files =
                            ConcatIn([i \in 1..k |-> replies[i].files], o, 1)
                   /\ \E o \in Orders(k) :
                         last'.dirs =
                            ConcatIn([i \in 1..k |-> replies[i].dirs], o, 1)
              ELSE /\ last'.err \in {replies[i].err : i \in 1..k} \ {Ok}
                   /\ last'.files = <<>>
                   /\ last'.dirs = <<>>]_vars

\* the root is listed over two shards: the shard that answered last has
\* its file first, and the file that both have is there twice
C25_Witness ==
    /\ last.op = "Client.ListDir"
    /\ last.err = Ok
    /\ Len(call.workers) = 2
    /\ call.workers[1].reply.files = <<"f">>
    /\ call.workers[2].reply.files = <<"f", "g">>
    /\ last.files = <<"f", "g", "f">>
    /\ last.dirs = <<"d">>

\* a reply without error
SomeLists == CHOOSE reply \in ListReplies : reply.err = Ok

\* C26: the workers of ListDir run side by side: a worker sends its
\* request and gets its reply whatever the other workers have done; the
\* failure of the request of one worker changes nothing for the other
\* workers; and ListDir returns only when every worker has its reply and
\* is done.
C26_ListDirFanOut ==
    /\ [](\A i \in DOMAIN call.workers :
             /\ (InCall("ListDir") /\ call.workers[i].pc = "start")
                   => ENABLED WorkerCall(i)
             /\ (InCall("ListDir") /\ call.workers[i].pc = "wait")
                   => ENABLED WorkerReply(i, SomeLists))
    /\ [][\A i \in DOMAIN call.workers :
             (call.workers[i].pc = "wait" /\ call'.pc = "ListDir"
                /\ call'.workers[i].pc = "errCh")
                => \A j \in DOMAIN call.workers \ {i} :
                      call'.workers[j] = call.workers[j]]_vars
    /\ [][ListDirReturns =>
             \A i \in DOMAIN call.workers :
                /\ call.workers[i].pc = "done"
                /\ call.workers[i].reply \in ListReplies]_vars

\* the request of the first worker has failed and the worker is done,
\* while the second worker, whose request was sent after that, has lists
\* to hand over
C26_Witness ==
    /\ call.pc = "ListDir"
    /\ Len(call.workers) = 2
    /\ call.workers[1].pc = "done"
    /\ call.errCh = <<ErrUnavailable>>
    /\ call.workers[2].pc = "filesCh"
    /\ call.workers[2].reply.err = Ok

\* all requests of the workers have returned
AllReplied ==
    /\ call.pc = "ListDir"
    /\ \A i \in DOMAIN call.workers : call.workers[i].pc \notin {"start", "wait"}

\* C27: no worker of ListDir waits to send its lists or its error: the
\* channels have room whenever a worker gets to them; once all requests
\* have returned ListDir returns; and when it has returned every worker
\* is done.
C27_NoStuckWorker ==
    /\ [](call.pc = "ListDir" =>
             \A i \in DOMAIN call.workers :
                /\ call.workers[i].pc = "filesCh" => Len(call.filesCh) < chanCap
                /\ call.workers[i].pc = "dirsCh" => Len(call.dirsCh) < chanCap
                /\ call.workers[i].pc = "errCh" => Len(call.errCh) < chanCap)
    /\ [](last.op = "Client.ListDir" =>
             \A i \in DOMAIN call.workers : call.workers[i].pc = "done")
    /\ (AllReplied ~> last.op = "Client.ListDir")

\* both workers have handed over their files, one of them is about to
\* hand over its directories, and the other has failed
C27_Witness ==
    /\ call.pc = "ListDir"
    /\ Len(call.workers) = 2
    /\ Len(call.filesCh) = 1
    /\ Len(call.errCh) = 1
    /\ \E i \in DOMAIN call.workers : call.workers[i].pc = "dirsCh"

\* the messages of the stream are the path, then data only
PathThenData(msgs, path) ==
    msgs # <<>> =>
       /\ msgs[1].kind = "path"
       /\ msgs[1].val = path
       /\ \A k \in 2..Len(msgs) : msgs[k].kind = "data"

\* the data of the messages after the first, one after the other
RECURSIVE DataOf(_)
DataOf(msgs) ==
    IF Len(msgs) <= 1 THEN <<>>
    ELSE msgs[2].val \o DataOf(Tail(msgs))

\* C29: WriteFile of the client sends the message with the path first,
\* one such message only, then messages with data, then closes its side of
\* the stream, after which it sends nothing; it returns without error
\* only when all of the local file is sent, the stream is closed and the
\* status of the server has come; and when a Send or the receipt of the
\* status fails it returns an error.
C29_WriteFileOrder ==
    /\ [](call.op = "Client.WriteFile" =>
             /\ PathThenData(stream[ClientStream].msgs, call.path)
             /\ stream[ClientStream].status # "" => stream[ClientStream].closed)
    /\ [][(call.op = "Client.WriteFile" /\ stream[ClientStream].closed
             /\ call'.op = "Client.WriteFile")
             => stream'[ClientStream].msgs = stream[ClientStream].msgs]_vars
    /\ []((last.op = "Client.WriteFile" /\ last.err = Ok) =>
             /\ stream[ClientStream].msgs # <<>>
             /\ DataOf(stream[ClientStream].msgs) = call.local
             /\ stream[ClientStream].closed
             /\ stream[ClientStream].status = "SUCCESS")
    /\ [][(call.pc \in {"SendPath", "SendData"} /\ call'.pc = "idle"
             /\ stream'[ClientStream].status # "SUCCESS")
             => last'.err # Ok]_vars

\* a local file of two bytes has gone out in two messages after the path
\* and the server has confirmed
C29_Witness ==
    /\ last.op = "Client.WriteFile"
    /\ last.err = Ok
    /\ Len(stream[ClientStream].msgs) = 3
    /\ call.local = <<1, 2>>
    /\ stream[ClientStream].status = "SUCCESS"


\* the path is one the server takes: not empty, absolute, and its
\* character after the separator, when it has one, in [start, end)
Belongs(path) ==
    /\ path # <<>>
    /\ path[1] = Separator
    /\ Len(path) > 1 => InRange(servers[1], path[2])

\* the errors with the code InvalidArgument
InvalidArguments ==
    {InvalidArgument(err) : err \in {ErrEmptyPath, ErrPathsAbs, ErrNotIntended}}

\* the calls of the engine that the handlers make
EngineOps == {"ListDir", "MakeDir", "Remove", "NewFile", "Read", "Write"}

\* the handlers take to the engine only the paths of the server: a call
\* ops of the engine is in progress, or has returned, only with such a
\* path, and a result of a handler of a request with one path is the
\* rejection of another path with InvalidArgument
ValidatedPaths(ops) ==
    /\ \A p \in Procs :
          proc[p].pc \in {"ListDir", "Remove", "FileRead", "FileReadCopy"}
             => Belongs(proc[p].src)
    /\ last.op \in ops => Belongs(last.src)
    /\ last.op \in ServerOps =>
          ~Belongs(last.src) /\ last.err \in InvalidArguments

\* C28: every handler of the server that gets a path (ListDir, MakeDir,
\* Remove, CreateFile, ReadFile, WriteFile) rejects with InvalidArgument
\* a path that is empty, not absolute, or has its character after the
\* separator outside [start, end), before the engine is read or modified.
C28_ValidatedFirst ==
    /\ [](ValidatedPaths(EngineOps))
    /\ [][last'.op \in ServerOps
            => UNCHANGED <<trie, objs, currentDir, mu, proc>>]_vars
    /\ [](\A p \in Procs :
             /\ handler[p].pc = "Write" => Belongs(handler[p].path)
             /\ proc[p].pc \in {"FileWrite", "FileWriteCopy"}
                   => Belongs(proc[p].src))
    /\ []((/\ last.op = "Server.WriteFile"
           /\ stream[last.p].msgs # <<>>
           /\ ~Belongs(GetPath(stream[last.p].msgs[1])))
             => last.err \in InvalidArguments)

\* the same for the handlers other than WriteFile
OnePathHandlersValidate ==
    /\ [](ValidatedPaths(EngineOps \ {"Write"}))
    /\ [][last'.op \in ServerOps
            => UNCHANGED <<trie, objs, currentDir, mu, proc>>]_vars

\* the first message of the stream carries no path
NoPathFirst(p) ==
    /\ stream[p].msgs # <<>>
    /\ GetPath(stream[p].msgs[1]) = <<>>

\* the last element of a sequence
LastOf(seq) == seq[Len(seq)]

\* C30: the handler of WriteFile takes the first message it receives as
\* the path: when that message has no path, or an empty one, the call
\* fails and no file is modified; otherwise the server sends the status
\* SUCCESS only after the end of the stream of the client and after the
\* content of the file is updated with the data received.
C30_WriteFileHandler ==
    /\ [](\A p \in Procs :
             /\ handler[p].pc = "Write" =>
                   /\ ~NoPathFirst(p)
                   /\ handler[p].path = GetPath(stream[p].msgs[1])
             /\ (last.op = "Server.WriteFile" /\ last.p = p /\ NoPathFirst(p)) =>
                   /\ last.err # Ok
                   /\ stream[p].status = ""
             /\ (NoPathFirst(p) /\ proc[p].pc # "idle") => handler[p].recvd = 0)
    /\ [][\A p \in Procs :
             (NoPathFirst(p) /\ handler[p].recvd > 0 /\ handler'[p].recvd > 0)
                => objs' = objs /\ trie' = trie]_vars
    /\ [][\A p \in Procs :
             (stream[p].status # "SUCCESS" /\ stream'[p].status = "SUCCESS") =>
                /\ AtEOF(p)
                /\ last.op = "Write" /\ last.err = Ok /\ last.p = p
                /\ objs[last.file].w = 0
                /\ objs[last.file].writes # <<>>
                /\ objs[last.file].content = Flatten(objs[last.file].writes)
                /\ Len(LastOf(objs[last.file].writes)) = last.n
                /\ (\A k \in 2..Len(stream[p].msgs) :
                       Len(stream[p].msgs[k].val) = 1)
                      => LastOf(objs[last.file].writes) = DataOf(stream[p].msgs)
                /\ objs' = objs]_vars

\* the file /a has the data of the two messages that came after the
\* path, and the server has sent its status
C30_Witness ==
    \E p \in Procs :
       /\ stream[p].status = "SUCCESS"
       /\ Len(stream[p].msgs) = 3
       /\ stream[p].msgs[1] = [kind |-> "path", val |-> <<"/", "a">>]
       /\ last.op = "Server.WriteFile"
       /\ objs[last.file].content = <<1, 1>>

\* C31: the bytes that ReadFile of the client writes to the local file
\* are the data of all the chunks received, one after the other in the
\* order of arrival, with no byte dropped or doubled, whatever the length
\* of a chunk and of the buffer that a Read is given.
C31_ReadFileBytes ==
    call.op = "Client.ReadFile" =>
       /\ call.pc = "ReadFile" => call.local = Flatten(call.data)
       /\ (last.op = "Client.ReadFile" /\ last.err = Ok)
             => last.out = Flatten(call.data)

\* the same when no chunk is longer than the buffer of a Read
ReadFileBytesOfShortChunks ==
    (/\ call.op = "Client.ReadFile"
     /\ \A k \in DOMAIN call.data : Len(call.data[k]) = 1)
       => C31_ReadFileBytes

\* C32: when a WriteFile ends without error, the bytes that the handler
\* of the server has handed to File.Write are the data of all the
\* messages received after the path, one after the other, with no byte
\* dropped, whatever the length of a message and of the buffer that a
\* Read of the reader of the server is given.
C32_WriteFileBytes ==
    \A p \in Procs :
       /\ (proc[p].pc = "FileWriteCopy" /\ handler[p].pc = "Write")
             => proc[p].data =
                   DataOf(SubSeq(stream[p].msgs, 1, handler[p].recvd))
       /\ (last.op = "Server.WriteFile" /\ last.p = p /\ last.err = Ok
             /\ stream[p].status = "SUCCESS")
             => LastOf(objs[last.file].writes) = DataOf(stream[p].msgs)

\* the same when no message is longer than the buffer of a Read
WriteFileBytesOfShortChunks ==
    (\A p \in Procs : \A k \in DOMAIN stream[p].msgs :
        Len(stream[p].msgs[k].val) <= 1) => C32_WriteFileBytes

\* the call of p is at an acquisition of the lock of the namespace
WaitsForMu(p) == proc[p].pc \in {"Remove", "ListDir", "RemoveListDir", "Move"}

\* p holds the lock of the namespace
HoldsMu(p) == mu.w = p \/ p \in mu.r

\* C33: no operation on the namespace acquires the lock of the namespace
\* while it holds it, so every call can go on to its return whenever no
\* other call holds the lock; and a caller that has its result, or has
\* made no call, holds no lock of the namespace.
C33_NoRelock ==
    \A p \in Procs :
       /\ WaitsForMu(p) => ~HoldsMu(p)
       /\ (WaitsForMu(p) /\ \A q \in Procs \ {p} : ~HoldsMu(q))
             => CanLock(mu)
       /\ proc[p].pc = "idle" => ~HoldsMu(p)

\* the same for all calls but the Remove of a directory
NoRelockButRemoveOfDir ==
    \A p \in Procs :
       proc[p].pc # "RemoveListDir" =>
          /\ WaitsForMu(p) => ~HoldsMu(p)
          /\ (WaitsForMu(p) /\ \A q \in Procs \ {p} : ~HoldsMu(q))
                => CanLock(mu)
          /\ proc[p].pc = "idle" => ~HoldsMu(p)

\* the path that the object stored under the key of node n reports, in
\* the form of a key: with the separator at the end for a directory
ReportedKey(n) ==
    LET m == trieMeta(trie, n)
        path == AbsolutePath(m)
    IN  IF objs[m].nt = dirType /\ path # SeperatorStr
        THEN path \o SeperatorStr
        ELSE path

\* C34: every object stored in the index under a key reports that key as
\* its own: its node is the node of the key, and its absolute path (and so
\* its name, the last segment) is that of the key, in List results also;
\* after a Move the entry is listed with the name and the path of the
\* destination.
C34_NodeIdentity ==
    \A n \in trie.keys :
       /\ objs[trieMeta(trie, n)].node = n
       /\ ReportedKey(n) = triePath(trie, n)

\* the same in the states where no Move has succeeded
NodeIdentityWithoutMove == Moved = 0 => C34_NodeIdentity

\* the entry of node n has its parent directory in the index
HasParent(n) == ExistsDir(ParentKey(triePath(trie, n)))

\* C35: every entry of the index other than the root has its parent
\* directory in the index, as a directory: no Move puts an entry under a
\* parent that does not exist, and no Move of a directory leaves its
\* children under a path that has no directory.
C35_ParentExists ==
    \A n \in trie.keys :
       triePath(trie, n) # SeperatorStr => HasParent(n)

\* the same in the states where no Move has succeeded
ParentExistsWithoutMove == Moved = 0 => C35_ParentExists

\* the key of node n has the form of the kind of its object: the
\* separator at the end for a directory, not for a file
FormOfKind(n) ==
    IsDir(n) <=> HasSuffix(triePath(trie, n), SeperatorStr)

\* C36: every directory of the index is stored under a key that ends with
\* the separator and every file under a key that does not; a Move whose
\* destination has the other form than the kind of its source (a file to
\* "x/", a directory to "x") makes no entry for which this fails.
C36_KeyFormOfKind == \A n \in trie.keys : FormOfKind(n)

\* the same in the states where no Move has succeeded
KeyFormOfKindWithoutMove == Moved = 0 => C36_KeyFormOfKind

\* the node that Read(r) and Write(r) resolve, or else the node that
\* ListDir(r) resolves: r, then r as a directory, from the current
\* directory
ResolvedFromCursor(r) ==
    IF findNode(r) # Nil THEN findNode(r) ELSE findNode(normalizeDirPath(r))

\* the node that Remove resolves for its normalized path s
ResolvedByRemove(s) ==
    IF findNode(s) # Nil THEN findNode(s) ELSE findNode(normalizeDirPath(s))

\* C37: with any current directory and any relative path r, Remove(r)
\* resolves the node that Read(r), Write(r) and ListDir(r) resolve, the
\* one at the current directory joined with r: it removes that node and no
\* other, and returns ErrNotFound only when they would.
C37_RemoveResolvesAsOthers ==
    \A p \in Procs :
       (proc[p].pc = "Remove" /\ ~isAbs(proc[p].src)) =>
          LET res == removeLocked(proc[p].absSrc)
              n == ResolvedFromCursor(proc[p].src)
          IN  /\ ResolvedByRemove(proc[p].absSrc) = n
              /\ res.err = ErrNotFound <=> n = Nil
              /\ res.err = Ok => res.trie.keys = trie.keys \ {n}

\* the same with the current directory the root, in the states where no
\* Move has succeeded
RemoveResolvesAsOthersAtRoot ==
    (currentDir = root /\ Moved = 0) => C37_RemoveResolvesAsOthers

\* what ChangeDir comes to for the path that CurrentDir returns: the
\* error, and the current directory afterwards
ChangeDirToCurrentDir ==
    LET s == normalizeDirPath(AbsolutePath(currentDir))
        node == findNode(s)
    IN  IF node = Nil THEN [err |-> ErrNotFound, dir |-> currentDir]
        ELSE IF ~IsDir(node) THEN [err |-> ErrDirExpected, dir |-> currentDir]
        ELSE [err |-> Ok, dir |-> trieMeta(trie, node)]

\* C38: the path that CurrentDir returns resolves to a directory of the
\* index: ChangeDir of that path succeeds and leaves the current
\* directory where it is, also after a Move of the current directory or
\* of a directory above it.
C38_CurrentDirResolves ==
    /\ ChangeDirToCurrentDir.err = Ok
    /\ ChangeDirToCurrentDir.dir = currentDir

\* the same in the states where no Move has succeeded
CurrentDirResolvesWithoutMove == Moved = 0 => C38_CurrentDirResolves

\* a WriteFile has the lock of the file f and waits for its stream
StalledOn(f) ==
    \E q \in Procs :
       /\ proc[q].pc = "FileWriteCopy"
       /\ proc[q].file = f
       /\ handler[q].pc = "Write"
       /\ ~HasMsg(q)
       /\ ~stream[q].closed

\* C39: a ListDir request on the server goes on to its response without
\* waiting for a WriteFile in progress: neither the listing of the engine
\* nor the making of the response waits while the write to a file of the
\* listed directory is stalled on its stream.
C39_ListDirDoesNotWait ==
    \A p \in Procs :
       /\ proc[p].pc = "ListDir" => CanRLock(mu)
       /\ Sizing(p) => ~StalledOn(NextSized(p))

\* the listing of the engine does not wait
EngineListDirDoesNotWait ==
    \A p \in Procs : proc[p].pc = "ListDir" => CanRLock(mu)

\* C40: when the stream that a Write reads from returns an error before
\* its end, the Write, and the handler of WriteFile, returns that error,
\* the lock of the file is released, and the content of the file, which
\* is what a later Read returns, is what it was before the Write.
C40_FailedWrite ==
    /\ [][\A p \in Procs :
             (/\ proc[p].pc = "FileWriteCopy"
              /\ handler[p].pc = "Write"
              /\ last'.op = "Server.WriteFile")
                => LET f == proc[p].file
                   IN  /\ last'.err = ErrUnavailable
                       /\ last'.p = p
                       /\ proc'[p].pc = "idle"
                       /\ objs'[f].w = 0
                       /\ objs'[f].content = objs[f].content
                       /\ objs'[f].writes = objs[f].writes]_vars
    /\ [](\A f \in DOMAIN objs : objs[f].content = Flatten(objs[f].writes))
    /\ []((last.op = "Read" /\ last.err = Ok) =>
             /\ last.out = objs[last.file].content
             /\ last.n = Size(last.file))

\* a WriteFile to a file that has the content <<1>> has failed after it
\* had received data, and the file has the content <<1>> and no lock
C40_Witness ==
    /\ last.op = "Server.WriteFile"
    /\ last.err = ErrUnavailable
    /\ handler[last.p].recvd = 2
    /\ last.file # 0
    /\ objs[last.file].content = <<1>>
    /\ objs[last.file].w = 0

====
